---- MODULE Spec2Model ----
(***************************************************************************)
(* Monitoring core of the UTM backend (backend/app/monitoring/router.py):  *)
(* telemetry ingestion, current drone positions, hex grid cells, alerts,   *)
(* the websocket tick loop and its stale-position sweep.                   *)
(*                                                                         *)
(* The database is modelled at READ COMMITTED: a handler reads committed   *)
(* rows at each await, keeps its own pending writes in its session, and    *)
(* makes them visible at commit.  Every await of a handler is a step.      *)
(*                                                                         *)
(* router.py defines process_telemetry_data twice (line 273 and line 821). *)
(* Both bodies are modelled; the handler field of a request names which    *)
(* body it runs ("first" = lines 273-450, "second" = lines 821-888).       *)
(***************************************************************************)
EXTENDS Integers, Sequences, FiniteSets, TLC

----------------------------------------------------------------------------
(* Bounds of the model *)

NumDrones == 2
MaxLat == 2
MaxTime == 6
MaxIngests == 3
MaxAlt == 1
MaxZones == 2

(* Program constants *)

DedupMinutes == 5
StaleMinutes == 5
RecentSeconds == 30
SecondsPerMinute == 60
BatteryMinutes == 10
LowBattery == 20
CriticalBattery == 10
FullBattery == 100
LatLimit == 90

----------------------------------------------------------------------------
(* Domains *)

Drones == 1..NumDrones
Lats == 0..MaxLat
Alts == 1..MaxAlt
Requests == {1, 2}
Conns == {1, 2}
Batteries == {0, 5, 15, LowBattery, FullBattery}
Users == {"admin", "owner", "other"}

AllStatuses == {"airborne", "hovering", "landing", "landed", "emergency", "disconnected"}
FlyingStatuses == {"airborne", "hovering", "landing"}
LiveStatuses == {"airborne", "hovering"}
TerminalStatuses == {"landed", "emergency", "disconnected"}
SampleStatuses == {"airborne", "landed"}

None == [none |-> TRUE]

Max(S) == CHOOSE x \in S : \A y \in S : y <= x
Min(S) == CHOOSE x \in S : \A y \in S : x <= y

----------------------------------------------------------------------------
(* Geodesy and hex grid: points lie on one meridian, a latitude is an      *)
(* integer number of distance units.                                       *)

ValidLat(lat) == -LatLimit <= lat /\ lat <= LatLimit

(* calculate_distance raises ValueError on a coordinate out of range *)
calculate_distance_raises(lat1, lat2) == ~(ValidLat(lat1) /\ ValidLat(lat2))

calculate_distance(lat1, lat2) == IF lat1 >= lat2 THEN lat1 - lat2 ELSE lat2 - lat1

point_in_circle_strict(point_lat, center_lat, radius) ==
    calculate_distance(point_lat, center_lat) < radius

point_in_circle(point_lat, center_lat, radius) ==
    calculate_distance(point_lat, center_lat) <= radius

(* h3.geo_to_h3(lat, lon, 8): a deterministic map from a point to its cell *)
geo_to_h3(lat) == lat \div 2

(* Latitudes a telemetry sample may carry: the schema accepts any float *)
SampleLats == Lats \cup {LatLimit + 1}

H3Indexes == {geo_to_h3(l) : l \in SampleLats}

----------------------------------------------------------------------------
VARIABLES
    now,          \* wall clock, minutes
    zones,        \* restricted_zones rows, in select order
    cells,        \* hex_grid_cells rows (committed)
    positions,    \* current_drone_positions rows (committed)
    alerts,       \* alerts rows (committed)
    telemetry,    \* telemetry_data rows (committed): number of rows per drone
    cellSeq,      \* hex_grid_cells id sequence
    posSeq,       \* current_drone_positions id sequence
    alertSeq,     \* alerts id sequence
    req,          \* in-flight process_telemetry_data calls
    conn,         \* websocket_endpoint coroutines: position in the tick loop, locals
    active_connections,  \* manager.active_connections
    started,      \* number of ingest calls begun
    zone_check,   \* the last direct call of check_restricted_zone_violation, with its result
    errors,       \* exception kinds logged so far (logger.error)
    bcast,        \* manager.broadcast calls in progress, one per publishing coroutine
    res,          \* the resolve_alert call in progress
    flights,      \* flight_requests rows with their waypoints
    zadm,         \* the restricted-zone update or delete call in progress, and its last answer
    route_check,  \* the last direct call of a route or segment check, with its result
    hex_query,    \* the last hexagon query, with its answer
    fcall,        \* the flight request call in progress (create or status update), and its last answer
    zoneSeq,      \* restricted_zones id sequence
    telemetry_generator  \* the TelemetryGenerator: its loop position, session and active_flights

vars == <<now, zones, cells, positions, alerts, telemetry, cellSeq, posSeq,
          alertSeq, req, conn, active_connections, started, zone_check, errors,
          bcast, res, flights, zadm, route_check, hex_query, fcall, zoneSeq,
          telemetry_generator>>

sideVars == <<zone_check, res, flights, zadm, route_check, hex_query, fcall, zoneSeq,
              telemetry_generator>>

dbVars == <<cells, positions, alerts, telemetry, cellSeq, posSeq, alertSeq>>

----------------------------------------------------------------------------
(* check_restricted_zone_violation: the loop over the selected zones.      *)

ActiveZones(zs) == SelectSeq(zs, LAMBDA z : z.is_active)

RECURSIVE ZoneLoop(_, _, _)
ZoneLoop(zs, latitude, altitude) ==
    IF zs = <<>> THEN None
    ELSE LET zone == Head(zs) IN
         IF calculate_distance_raises(latitude, zone.center_lat)
         THEN None    \* except Exception: log and return None
         ELSE IF point_in_circle(latitude, zone.center_lat, zone.radius)
         THEN IF altitude > zone.max_altitude
              THEN [zone_id |-> zone.id, severity |-> "high"]
              ELSE [zone_id |-> zone.id, severity |-> "medium"]
         ELSE ZoneLoop(Tail(zs), latitude, altitude)

check_restricted_zone_violation(latitude, altitude, zs) ==
    ZoneLoop(ActiveZones(zs), latitude, altitude)

----------------------------------------------------------------------------
(* Rows and queries *)

Samples == [drone_id : Drones, latitude : SampleLats, altitude : Alts,
            status : SampleStatuses, battery_level : Batteries]

(* Samples with coordinates in range and a full battery *)
RoutineSamples == {s \in Samples : s.latitude \in Lats /\ s.battery_level = FullBattery}

(* alerted is history: the connections that were sent the alert event of   *)
(* the call.                                                               *)
IdleReq == [pc |-> "idle", handler |-> "none", sample |-> None, hex_cell |-> 0,
            new_cell |-> None, current_pos |-> 0, new_alerts |-> {}, then |-> "idle",
            alerted |-> {}]

CellByIndex(h3_index) == {c \in cells : c.h3_index = h3_index}

PositionsOfAny(drone_id) == positions

PositionsOf(drone_id) == {p \in positions : p.drone_id = drone_id}

(* select(Alert).where(drone_id, alert_type, is_resolved == False,         *)
(*                     created_at > utcnow() - timedelta(minutes=window))  *)
ExistingAlerts(drone_id, alert_type, window) ==
    {a \in alerts : /\ a.drone_id = drone_id
                    /\ a.alert_type = alert_type
                    /\ a.is_resolved = FALSE
                    /\ a.created_at > now - window}

InFlight(r) == req[r].pc # "idle"

(* The except branch of a handler: log, roll back, answer 500 *)
Fail(r, kind) ==
    /\ req' = [req EXCEPT ![r] = IdleReq]
    /\ errors' = errors \cup {kind}

----------------------------------------------------------------------------
(* ConnectionManager *)

RECURSIVE RemoveFirst(_, _)
RemoveFirst(list, x) ==
    IF list = <<>> THEN <<>>
    ELSE IF Head(list) = x THEN Tail(list)
    ELSE <<Head(list)>> \o RemoveFirst(Tail(list), x)

InList(list, x) == \E i \in 1..Len(list) : list[i] = x

(* a disconnect that removes the head of the list whatever the connection *)
DisconnectHead(list, websocket) ==
    IF list = <<>> THEN list ELSE Tail(list)

disconnect(list, websocket) ==
    IF InList(list, websocket) THEN RemoveFirst(list, websocket) ELSE list

(* manager.broadcast(message).  The for loop walks active_connections      *)
(* itself, by index, and awaits each send_text; other coroutines run at    *)
(* each of these awaits and may append to or remove from the list.         *)
(* Fields of a call in progress: type (the message), i (the list iterator: *)
(* number of positions consumed), at (the connection whose send is         *)
(* awaited), dead (dead_connections).  History of the call, kept for the   *)
(* properties: subs (the connections in the list when the call started),   *)
(* tried (the connections a send was attempted on), after (the calls that  *)
(* were already in progress when this one started), behind (connections    *)
(* that were handed a later message before this call reached them).        *)
Pubs == ({"ingest"} \X Requests) \cup ({"ws"} \X Conns) \cup {<<"resolve", 1>>}

MessageTypes == {"telemetry_update", "restricted_zone_alert", "alert_resolved"}

InProgress == {q \in Pubs : bcast[q] # None}

NewBroadcast(type) ==
    [type |-> type, i |-> 0, at |-> 0, dead |-> <<>>,
     subs |-> {active_connections[k] : k \in 1..Len(active_connections)},
     tried |-> {}, after |-> InProgress, behind |-> {}]

RECURSIVE DisconnectAll(_, _)
DisconnectAll(list, dead) ==
    IF dead = <<>> THEN list
    ELSE DisconnectAll(disconnect(list, Head(dead)), Tail(dead))

(* A message is written to socket c: the calls of older that have not      *)
(* reached c yet are now behind on c.                                      *)
MarkBehind(older, c) ==
    [q \in Pubs |->
        IF q \in older /\ bcast[q] # None /\ c \notin bcast[q].tried
        THEN [bcast[q] EXCEPT !.behind = @ \cup {c}]
        ELSE bcast[q]]

(* One turn of the loop of call b of publisher p, from the completion of   *)
(* the awaited send to the start of the next one (ok: the write succeeds,  *)
(* otherwise send_text raises), or past the end of the list to the clean   *)
(* up of dead_connections and the return.                                  *)
BroadcastStep(p, b, ok) ==
    IF b.i < Len(active_connections)
    THEN LET connection == active_connections[b.i + 1]
             marked == IF ok THEN MarkBehind(b.after, connection) ELSE bcast
         IN /\ bcast' = [marked EXCEPT ![p] =
                            [b EXCEPT !.i = @ + 1,
                                      !.at = connection,
                                      !.tried = @ \cup {connection},
                                      !.dead = IF ok THEN @ ELSE Append(@, connection)]]
            /\ UNCHANGED active_connections
    ELSE /\ ok
         /\ active_connections' = DisconnectAll(active_connections, b.dead)
         /\ bcast' = [q \in Pubs |->
                         IF q = p \/ bcast[q] = None THEN None
                         ELSE [bcast[q] EXCEPT !.after = @ \ {p}]]

(* The connection the step of a call hands its message to *)
SentTo(b, ok) ==
    IF b.i < Len(active_connections) /\ ok
    THEN {active_connections[b.i + 1]}
    ELSE {}

(* Writes to one socket complete in the order they were started: the send  *)
(* awaited by p completes once no older call awaits a send on that socket. *)
SendCompletes(p) ==
    /\ bcast[p] # None
    /\ ~\E q \in bcast[p].after : bcast[q] # None /\ bcast[q].at = bcast[p].at

----------------------------------------------------------------------------
(* process_telemetry_data *)

IngestBegin(r, s, h) ==
    /\ req[r].pc = "idle"
    /\ started < MaxIngests
    /\ started' = started + 1
    /\ req' = [req EXCEPT ![r] = [IdleReq EXCEPT !.pc = "cell", !.handler = h, !.sample = s]]
    /\ UNCHANGED <<sideVars, now, zones, dbVars, conn, active_connections, bcast, errors>>

(* select(HexGridCell).where(h3_index == h3_index).scalar_one_or_none()    *)
IngestLookupCell(r) ==
    /\ req[r].pc = "cell"
    /\ LET s == req[r].sample
           found == CellByIndex(geo_to_h3(s.latitude))
       IN IF found # {}
          THEN /\ req' = [req EXCEPT ![r].pc = "pos",
                                     ![r].hex_cell = (CHOOSE c \in found : TRUE).id]
               /\ UNCHANGED <<telemetry>>
          ELSE IF req[r].handler = "first"
          THEN /\ req' = [req EXCEPT ![r].pc = "flush"]
               /\ UNCHANGED <<telemetry>>
          ELSE \* second body: commit the telemetry record, skip the position
               /\ telemetry' = [telemetry EXCEPT ![s.drone_id] = @ + 1]
               /\ req' = [req EXCEPT ![r] = IdleReq]
    /\ UNCHANGED <<sideVars, now, zones, cells, positions, alerts, cellSeq, posSeq, alertSeq,
                   conn, active_connections, bcast, started, errors>>

(* An uncommitted insert of the same h3_index by another session holds the *)
(* unique index entry: this insert waits for that session to finish.      *)
PendingCellElsewhere(r, h3_index) ==
    \E o \in Requests \ {r} : /\ req[o].new_cell # None
                              /\ req[o].new_cell.h3_index = h3_index

(* db.add(HexGridCell(...)); await db.flush() *)
IngestFlushCell(r) ==
    /\ req[r].pc = "flush"
    /\ LET h3_index == geo_to_h3(req[r].sample.latitude)
       IN /\ ~PendingCellElsewhere(r, h3_index)
          /\ IF CellByIndex(h3_index) # {}
             THEN /\ Fail(r, "IntegrityError")
                  /\ UNCHANGED cellSeq
             ELSE /\ cellSeq' = cellSeq + 1
                  /\ req' = [req EXCEPT ![r].pc = "pos",
                                        ![r].hex_cell = cellSeq + 1,
                                        ![r].new_cell = [id |-> cellSeq + 1,
                                                         h3_index |-> h3_index,
                                                         drones_count |-> 0]]
                  /\ UNCHANGED errors
    /\ UNCHANGED <<sideVars, now, zones, cells, positions, alerts, telemetry, posSeq, alertSeq,
                   conn, active_connections, bcast, started>>

(* select(CurrentDronePosition).where(drone_id == drone_id).scalar_one_or_none() *)
IngestLookupPos(r) ==
    /\ req[r].pc = "pos"
    /\ LET rows == PositionsOf(req[r].sample.drone_id)
       IN IF Cardinality(rows) > 1
          THEN Fail(r, "MultipleResultsFound")
          ELSE /\ req' = [req EXCEPT
                            ![r].pc = IF req[r].handler = "first" THEN "zone" ELSE "commit",
                            ![r].current_pos = IF rows = {} THEN 0
                                               ELSE (CHOOSE p \in rows : TRUE).id]
               /\ UNCHANGED errors
    /\ UNCHANGED <<sideVars, now, zones, dbVars, conn, active_connections, bcast, started>>

(* The zone violation branch of the first body: the violation check, the   *)
(* lookup of an existing alert, db.add(alert) and the call of              *)
(* manager.broadcast, which runs up to its first awaited send.             *)
NewZoneAlert(s, violation) ==
    [drone_id |-> s.drone_id, alert_type |-> "restricted_zone_violation",
     severity |-> violation.severity, zone |-> violation.zone_id,
     is_resolved |-> FALSE, created_at |-> now, id |-> 0]

(* if telemetry.battery_level and telemetry.battery_level < 20 *)
BatteryChecked(s) == s.battery_level # 0 /\ s.battery_level < LowBattery

IngestCheckZone(r, ok) ==
    /\ req[r].pc = "zone"
    /\ LET s == req[r].sample
           p == <<"ingest", r>>
           violation == check_restricted_zone_violation(s.latitude, s.altitude, zones)
           existing == ExistingAlerts(s.drone_id, "restricted_zone_violation", DedupMinutes)
           after == IF BatteryChecked(s) THEN "battery" ELSE "commit"
       IN IF violation = None \/ Cardinality(existing) = 1
          THEN /\ ok
               /\ req' = [req EXCEPT ![r].pc = after]
               /\ UNCHANGED <<errors, active_connections, bcast>>
          ELSE IF Cardinality(existing) > 1
          THEN /\ ok
               /\ Fail(r, "MultipleResultsFound")
               /\ UNCHANGED <<active_connections, bcast>>
          ELSE /\ BroadcastStep(p, NewBroadcast("restricted_zone_alert"), ok)
               /\ req' = [req EXCEPT
                            ![r].pc = IF bcast'[p] = None THEN after ELSE "publish",
                            ![r].then = after,
                            ![r].new_alerts = {NewZoneAlert(s, violation)},
                            ![r].alerted = SentTo(NewBroadcast("restricted_zone_alert"), ok)]
               /\ UNCHANGED errors
    /\ UNCHANGED <<sideVars, now, zones, dbVars, conn, started>>

(* The rest of a manager.broadcast call made by the handler *)
IngestBroadcast(r, ok) ==
    /\ req[r].pc = "publish"
    /\ LET p == <<"ingest", r>>
       IN /\ SendCompletes(p)
          /\ BroadcastStep(p, bcast[p], ok)
          /\ LET sent == IF bcast[p].type = "restricted_zone_alert"
                          THEN SentTo(bcast[p], ok) ELSE {}
             IN req' = IF bcast'[p] # None THEN [req EXCEPT ![r].alerted = @ \cup sent]
                       ELSE IF req[r].then = "idle" THEN [req EXCEPT ![r] = IdleReq]
                       ELSE [req EXCEPT ![r].pc = req[r].then,
                                        ![r].alerted = @ \cup sent]
    /\ UNCHANGED <<sideVars, now, zones, dbVars, conn, started, errors>>

(* The low battery branch: the lookup of an existing alert and db.add *)
NewBatteryAlert(s) ==
    [drone_id |-> s.drone_id, alert_type |-> "low_battery",
     severity |-> IF s.battery_level < CriticalBattery THEN "high" ELSE "medium",
     zone |-> 0, is_resolved |-> FALSE, created_at |-> now, id |-> 0]

IngestBattery(r) ==
    /\ req[r].pc = "battery"
    /\ LET s == req[r].sample
           existing == ExistingAlerts(s.drone_id, "low_battery", BatteryMinutes)
       IN IF Cardinality(existing) > 1
          THEN Fail(r, "MultipleResultsFound")
          ELSE /\ req' = [req EXCEPT
                            ![r].pc = "commit",
                            ![r].new_alerts = IF existing = {}
                                              THEN @ \cup {NewBatteryAlert(s)} ELSE @]
               /\ UNCHANGED errors
    /\ UNCHANGED <<sideVars, now, zones, dbVars, conn, active_connections, bcast, started>>

(* The rows an ingest writes to current_drone_positions at commit.  The    *)
(* first body sets last_update itself; the second leaves it to the column  *)
(* onupdate, which fires only when the UPDATE statement is emitted, that   *)
(* is when some attribute of the row changed (speed and heading, which     *)
(* are not modelled, may or may not have).  The first body stores          *)
(* telemetry.battery_level or 100.0, the second the value as reported.     *)
StoredBattery(r) ==
    IF req[r].handler = "first" /\ req[r].sample.battery_level = 0
    THEN FullBattery
    ELSE req[r].sample.battery_level

UpdatedPosition(p, r, touched) ==
    LET s == req[r].sample
        same == /\ p.hex_cell_id = req[r].hex_cell
                /\ p.latitude = s.latitude
                /\ p.altitude = s.altitude
                /\ p.status = s.status
                /\ p.battery_level = StoredBattery(r)
    IN [p EXCEPT !.hex_cell_id = req[r].hex_cell,
                 !.latitude = s.latitude,
                 !.altitude = s.altitude,
                 !.status = s.status,
                 !.battery_level = StoredBattery(r),
                 !.last_update = IF req[r].handler = "second" /\ same /\ ~touched
                                 THEN @ ELSE now]

InsertedPosition(r) ==
    LET s == req[r].sample
    IN [id |-> posSeq + 1, drone_id |-> s.drone_id, hex_cell_id |-> req[r].hex_cell,
        latitude |-> s.latitude, altitude |-> s.altitude, status |-> s.status,
        battery_level |-> StoredBattery(r), last_update |-> now]

InsertedNone(new) == {}

(* The pending alerts get their ids in the order they were added *)
InsertedAlerts(new) ==
    {[a EXCEPT !.id = IF a.alert_type = "low_battery" /\ Cardinality(new) > 1
                      THEN alertSeq + 2 ELSE alertSeq + 1] : a \in new}

(* await db.commit(): every pending write of the session becomes visible.  *)
(* The UPDATE of a row that was deleted meanwhile matches no row           *)
(* (StaleDataError) and the handler fails.  After the commit the first     *)
(* body calls manager.broadcast with the telemetry update.                 *)
IngestCommit(r, ok) ==
    /\ req[r].pc = "commit"
    /\ LET s == req[r].sample
           p == <<"ingest", r>>
           cur == {q \in positions : q.id = req[r].current_pos}
       IN IF req[r].current_pos # 0 /\ cur = {}
          THEN /\ ok
               /\ Fail(r, "StaleDataError")
               /\ UNCHANGED <<cells, positions, alerts, telemetry, posSeq, alertSeq,
                              active_connections, bcast>>
          ELSE /\ telemetry' = [telemetry EXCEPT ![s.drone_id] = @ + 1]
               /\ cells' = IF req[r].new_cell = None THEN cells
                           ELSE cells \cup {req[r].new_cell}
               /\ IF req[r].current_pos # 0
                  THEN /\ \E touched \in BOOLEAN :
                            positions' = (positions \ cur) \cup
                                {UpdatedPosition(q, r, touched) : q \in cur}
                       /\ UNCHANGED posSeq
                  ELSE /\ positions' = positions \cup {InsertedPosition(r)}
                       /\ posSeq' = posSeq + 1
               /\ alerts' = alerts \cup InsertedAlerts(req[r].new_alerts)
               /\ alertSeq' = alertSeq + Cardinality(req[r].new_alerts)
               /\ IF req[r].handler = "first"
                  THEN /\ BroadcastStep(p, NewBroadcast("telemetry_update"), ok)
                       /\ req' = [req EXCEPT ![r] =
                                    IF bcast'[p] = None THEN IdleReq
                                    ELSE [IdleReq EXCEPT !.pc = "publish",
                                                         !.handler = "first"]]
                  ELSE /\ ok
                       /\ req' = [req EXCEPT ![r] = IdleReq]
                       /\ UNCHANGED <<active_connections, bcast>>
               /\ UNCHANGED errors
    /\ UNCHANGED <<sideVars, now, zones, cellSeq, conn, started>>

----------------------------------------------------------------------------
(* websocket_endpoint: connect, then the tick loop *)

ClosedConn == [pc |-> "closed", last_positions |-> [d \in Drones |-> None], todo |-> <<>>,
               new_alert |-> None, drone_telemetry |-> {}, restricted_zone_alerts |-> <<>>]

RECURSIVE SortById(_)
SortById(rows) ==
    IF rows = {} THEN <<>>
    ELSE LET first == CHOOSE p \in rows : \A q \in rows : p.id <= q.id
         IN <<first>> \o SortById(rows \ {first})

WsConnect(c) ==
    /\ conn[c].pc = "closed"
    /\ conn' = [conn EXCEPT ![c] = [ClosedConn EXCEPT !.pc = "sleep"]]
    /\ active_connections' = Append(active_connections, c)
    /\ UNCHANGED bcast
    /\ UNCHANGED <<sideVars, now, zones, dbVars, req, started, errors>>

(* The outer except of websocket_endpoint: log, manager.disconnect, return. *)
(* The coroutine is over; a client that comes back is another websocket.   *)
WsFail(c, kind) ==
    /\ conn' = [conn EXCEPT ![c] = [ClosedConn EXCEPT !.pc = "done"]]
    /\ active_connections' = disconnect(active_connections, c)
    /\ errors' = errors \cup {kind}
    /\ UNCHANGED bcast

(* select(CurrentDronePosition, Drone).where(status.in_(["airborne", "hovering"])) *)
TickQuery(c) ==
    /\ conn[c].pc = "sleep"
    /\ LET current_positions == SortById({p \in positions : p.status \in LiveStatuses})
       IN conn' = [conn EXCEPT ![c].pc = IF current_positions = <<>> THEN "sweep" ELSE "loop",
                               ![c].todo = current_positions]
    /\ UNCHANGED <<sideVars, now, zones, dbVars, req, active_connections, bcast, started, errors>>

(* One pass of the loop over current_positions, up to the commit of a new  *)
(* alert (which is the next step).                                         *)
TickDrone(c) ==
    /\ conn[c].pc = "loop"
    /\ LET position == Head(conn[c].todo)
           rest == Tail(conn[c].todo)
           d == position.drone_id
           nextpc == IF rest = <<>> THEN "send" ELSE "loop"
           violation == check_restricted_zone_violation(position.latitude, position.altitude, zones)
           last_pos == conn[c].last_positions[d]
           last_violation == IF last_pos = None THEN None
                             ELSE check_restricted_zone_violation(last_pos.latitude,
                                                                  last_pos.altitude, zones)
           is_new_violation == ~(/\ last_pos # None
                                 /\ last_violation # None
                                 /\ last_violation.zone_id = violation.zone_id)
           existing == ExistingAlerts(d, "restricted_zone_violation", DedupMinutes)
           entry == [latitude |-> position.latitude, altitude |-> position.altitude]
       IN IF (now - position.last_update) * SecondsPerMinute > RecentSeconds
          THEN /\ conn' = [conn EXCEPT ![c].todo = rest, ![c].pc = nextpc]
               /\ UNCHANGED <<active_connections, bcast, errors>>
          ELSE IF violation # None /\ is_new_violation /\ Cardinality(existing) > 1
          THEN WsFail(c, "MultipleResultsFound")
          ELSE IF violation # None /\ is_new_violation /\ existing = {}
          THEN /\ conn' = [conn EXCEPT
                             ![c].pc = "alert",
                             ![c].drone_telemetry = @ \cup {d},
                             ![c].new_alert = NewZoneAlert(position, violation)]
               /\ UNCHANGED <<active_connections, bcast, errors>>
          ELSE /\ conn' = [conn EXCEPT
                             ![c].pc = nextpc,
                             ![c].todo = rest,
                             ![c].drone_telemetry = @ \cup {d},
                             ![c].last_positions[d] = entry]
               /\ UNCHANGED <<active_connections, bcast, errors>>
    /\ UNCHANGED <<sideVars, now, zones, dbVars, req, started>>

(* db.add(alert); await db.commit(); then the rest of the loop body *)
TickCommitAlert(c) ==
    /\ conn[c].pc = "alert"
    /\ LET position == Head(conn[c].todo)
           rest == Tail(conn[c].todo)
           alert == [conn[c].new_alert EXCEPT !.id = alertSeq + 1, !.created_at = now]
       IN /\ alerts' = alerts \cup {alert}
          /\ alertSeq' = alertSeq + 1
          /\ conn' = [conn EXCEPT
                        ![c].pc = IF rest = <<>> THEN "send" ELSE "loop",
                        ![c].todo = rest,
                        ![c].new_alert = None,
                        ![c].restricted_zone_alerts =
                            Append(@, [alert_id |-> alert.id, drone_id |-> alert.drone_id,
                                       zone_id |-> alert.zone]),
                        ![c].last_positions[position.drone_id] =
                            [latitude |-> position.latitude, altitude |-> position.altitude]]
    /\ UNCHANGED <<sideVars, now, zones, cells, positions, telemetry, cellSeq, posSeq, req,
                   active_connections, bcast, started, errors>>

(* websocket.send_text of the telemetry update on the coroutine's own      *)
(* socket; a send that raises ends the coroutine.                          *)
TickSend(c, delivered) ==
    /\ conn[c].pc = "send"
    /\ IF conn[c].drone_telemetry = {}
       THEN /\ delivered
            /\ conn' = [conn EXCEPT ![c].pc = "sweep"]
            /\ UNCHANGED <<active_connections, bcast, errors>>
       ELSE IF delivered
       THEN /\ conn' = [conn EXCEPT
                          ![c].pc = IF conn[c].restricted_zone_alerts = <<>>
                                    THEN "sweep" ELSE "send_alerts",
                          ![c].drone_telemetry = {}]
            /\ bcast' = MarkBehind(InProgress, c)
            /\ UNCHANGED <<active_connections, errors>>
       ELSE WsFail(c, "WebSocketDisconnect")
    /\ UNCHANGED <<sideVars, now, zones, dbVars, req, started>>

(* websocket.send_text of the new alerts on the coroutine's own socket *)
TickSendAlerts(c, delivered) ==
    /\ conn[c].pc = "send_alerts"
    /\ IF delivered
       THEN /\ conn' = [conn EXCEPT ![c].pc = "publish"]
            /\ bcast' = MarkBehind(InProgress, c)
            /\ UNCHANGED <<active_connections, errors>>
       ELSE WsFail(c, "WebSocketDisconnect")
    /\ UNCHANGED <<sideVars, now, zones, dbVars, req, started>>

(* manager.broadcast of the new alerts to all connections, up to its       *)
(* first awaited send                                                      *)
TickPublish(c, ok) ==
    /\ conn[c].pc = "publish"
    /\ LET p == <<"ws", c>>
       IN /\ BroadcastStep(p, NewBroadcast("restricted_zone_alert"), ok)
          /\ conn' = [conn EXCEPT
                        ![c].pc = IF bcast'[p] = None THEN "sweep" ELSE "broadcast",
                        ![c].restricted_zone_alerts = <<>>]
    /\ UNCHANGED <<sideVars, now, zones, dbVars, req, started, errors>>

TickBroadcast(c, ok) ==
    /\ conn[c].pc = "broadcast"
    /\ LET p == <<"ws", c>>
       IN /\ SendCompletes(p)
          /\ BroadcastStep(p, bcast[p], ok)
          /\ conn' = IF bcast'[p] = None THEN [conn EXCEPT ![c].pc = "sweep"] ELSE conn
    /\ UNCHANGED <<sideVars, now, zones, dbVars, req, started, errors>>

(* delete(CurrentDronePosition).where(last_update < utcnow() - 5 minutes,  *)
(*                                    status.in_([landed, emergency, disconnected])) *)
IsStaleAnyStatus(p) == p.last_update < now - StaleMinutes

IsStale(p) ==
    /\ p.last_update < now - StaleMinutes
    /\ p.status \in TerminalStatuses

TickSweep(c) ==
    /\ conn[c].pc = "sweep"
    /\ positions' = {p \in positions : ~IsStale(p)}
    /\ conn' = [conn EXCEPT ![c].pc = "sleep"]
    /\ UNCHANGED <<sideVars, now, zones, cells, alerts, telemetry, cellSeq, posSeq, alertSeq, req,
                   active_connections, bcast, started, errors>>

----------------------------------------------------------------------------
(* resolve_alert.  Every drone belongs to the user "owner". *)

IdleRes == [pc |-> "idle", alert_id |-> 0, user |-> "admin", answer |-> 0]

ResolvedToggled(a) == [a EXCEPT !.is_resolved = ~@]

Resolved(a) == [a EXCEPT !.is_resolved = TRUE]

(* select(Alert).filter(Alert.id == alert_id): 404 when there is none *)
ResolveBegin(alert_id, user) ==
    /\ res.pc = "idle"
    /\ IF \E a \in alerts : a.id = alert_id
       THEN res' = [pc |-> IF user = "admin" THEN "commit" ELSE "owner",
                    alert_id |-> alert_id, user |-> user, answer |-> 0]
       ELSE res' = [IdleRes EXCEPT !.answer = 404]
    /\ UNCHANGED <<telemetry_generator, fcall, zoneSeq, zone_check, route_check, hex_query, flights, zadm, now, zones, dbVars, req, conn,
                   active_connections, bcast, started, errors>>

(* select(Drone) and the owner check: 403 for another user *)
ResolveCheckOwner ==
    /\ res.pc = "owner"
    /\ res' = IF res.user = "owner" THEN [res EXCEPT !.pc = "commit"]
              ELSE [IdleRes EXCEPT !.answer = 403]
    /\ UNCHANGED <<telemetry_generator, fcall, zoneSeq, zone_check, route_check, hex_query, flights, zadm, now, zones, dbVars, req, conn,
                   active_connections, bcast, started, errors>>

(* alert.is_resolved = True; commit; refresh; manager.broadcast up to its  *)
(* first awaited send                                                      *)
ResolveCommit(ok) ==
    /\ res.pc = "commit"
    /\ alerts' = {IF a.id = res.alert_id THEN Resolved(a) ELSE a : a \in alerts}
    /\ BroadcastStep(<<"resolve", 1>>, NewBroadcast("alert_resolved"), ok)
    /\ res' = IF bcast'[<<"resolve", 1>>] = None THEN [IdleRes EXCEPT !.answer = 200]
              ELSE [res EXCEPT !.pc = "publish"]
    /\ UNCHANGED <<telemetry_generator, fcall, zoneSeq, zone_check, route_check, hex_query, flights, zadm, now, zones, cells, positions, telemetry,
                   cellSeq, posSeq, alertSeq, req, conn, started, errors>>

ResolveBroadcast(ok) ==
    /\ res.pc = "publish"
    /\ SendCompletes(<<"resolve", 1>>)
    /\ BroadcastStep(<<"resolve", 1>>, bcast[<<"resolve", 1>>], ok)
    /\ res' = IF bcast'[<<"resolve", 1>>] = None THEN [IdleRes EXCEPT !.answer = 200]
              ELSE res
    /\ UNCHANGED <<telemetry_generator, fcall, zoneSeq, zone_check, route_check, hex_query, flights, zadm, now, zones, dbVars, req, conn, started, errors>>

ResolveStep ==
    \/ \E alert_id \in 1..(alertSeq + 1), user \in Users : ResolveBegin(alert_id, user)
    \/ ResolveCheckOwner
    \/ \E ok \in BOOLEAN : ResolveCommit(ok)

ResolvePublish == \E ok \in BOOLEAN : ResolveBroadcast(ok)

----------------------------------------------------------------------------
(* flights/router.py: update_restricted_zone and delete_restricted_zone.   *)
(* A flight request has its waypoints in sequence order, each a latitude   *)
(* and an altitude.                                                        *)

NumPoints == 10
Unset == -1

(* line_intersects_circle: an endpoint within the circle, or one of the    *)
(* num_points + 1 points sampled along the segment (distances times        *)
(* num_points, to stay in the integers)                                    *)
line_intersects_circle(p1, p2, center_lat, radius) ==
    \/ calculate_distance(p1, center_lat) <= radius
    \/ calculate_distance(p2, center_lat) <= radius
    \/ \E i \in 0..NumPoints :
          calculate_distance(NumPoints * p1 + (p2 - p1) * i, NumPoints * center_lat)
             <= NumPoints * radius

route_intersects_zone(waypoints, center_lat, radius) ==
    \/ \E k \in 1..Len(waypoints) : point_in_circle(waypoints[k], center_lat, radius)
    \/ \E k \in 1..(Len(waypoints) - 1) :
          line_intersects_circle(waypoints[k], waypoints[k + 1], center_lat, radius)

(* route_points = [(wp.latitude, wp.longitude) for wp in waypoints] *)
route_points(waypoints) == [k \in 1..Len(waypoints) |-> waypoints[k].latitude]

(* check_route_conflicts: for each active zone, in select order, two       *)
(* entries of conflicts (the intersection and the distance of the first    *)
(* waypoint) and the zone itself in restricted_zones when the route        *)
(* intersects it, then one entry of conflicts for every waypoint inside    *)
(* the zone and above its ceiling.                                         *)
(* The altitude test reads wp.altitude of every waypoint for every active  *)
(* zone, before anything else.  The waypoint rows of the store have an     *)
(* altitude; the WaypointBase and WaypointCreate objects of a request have *)
(* a latitude and a longitude only (flights/schemas.py), and reading the   *)
(* altitude of one raises AttributeError.                                  *)
HasAltitude(wp) == "altitude" \in DOMAIN wp

ZoneConflicts(waypoints, zone) ==
    LET above == SelectSeq(waypoints, LAMBDA wp :
                     /\ wp.altitude > zone.max_altitude
                     /\ route_intersects_zone(<<wp.latitude>>, zone.center_lat, zone.radius))
    IN (IF route_intersects_zone(route_points(waypoints), zone.center_lat, zone.radius)
        THEN << [zone |-> zone.id, kind |-> "route"],
                [zone |-> zone.id, kind |-> "distance"] >>
        ELSE <<>>)
       \o [k \in 1..Len(above) |-> [zone |-> zone.id, kind |-> "altitude"]]

RECURSIVE AllConflicts(_, _)
AllConflicts(waypoints, zs) ==
    IF zs = <<>> THEN <<>>
    ELSE ZoneConflicts(waypoints, Head(zs)) \o AllConflicts(waypoints, Tail(zs))

NoConflicts(error) ==
    [error |-> error, has_conflicts |-> FALSE, conflicts |-> <<>>, restricted_zones |-> <<>>]

check_route_conflicts(waypoints, restricted_zones) ==
    LET active == ActiveZones(restricted_zones)
        conflicts == AllConflicts(waypoints, active)
        conflicting_zones ==
            SelectSeq(active, LAMBDA zone :
                route_intersects_zone(route_points(waypoints), zone.center_lat, zone.radius))
    IN IF active # <<>> /\ \E k \in 1..Len(waypoints) : ~HasAltitude(waypoints[k])
       THEN NoConflicts("AttributeError")
       ELSE [error |-> "none",
             has_conflicts |-> Len(conflicts) > 0,
             conflicts |-> conflicts,
             restricted_zones |->
                 [k \in 1..Len(conflicting_zones) |-> conflicting_zones[k].id]]

(* The handler's locals; after the call only its answer remains *)
IdleZadm == [pc |-> "idle", op |-> "none", zone_id |-> 0, radius |-> 0,
             max_altitude |-> Unset, todo |-> <<>>, answer |-> 0, flight |-> 0]

ZoneById(zone_id) == {k \in 1..Len(zones) : zones[k].id = zone_id}

(* The route check made with the radius the zone has before the call *)
CheckedRadiusOld(zone) == zone.radius

(* The radius the route check of the call is made with *)
CheckedRadius(zone) == IF zadm.op = "update" THEN zadm.radius ELSE zone.radius

(* The admin check and select(RestrictedZone).filter(id == zone_id) *)
ZoneCallBegin(op, user, zone_id, radius, max_altitude) ==
    /\ zadm.pc = "idle"
    /\ zadm' = IF user # "admin"
               THEN [IdleZadm EXCEPT !.op = op, !.answer = 403]
               ELSE IF ZoneById(zone_id) = {}
               THEN [IdleZadm EXCEPT !.op = op, !.answer = 404]
               ELSE [IdleZadm EXCEPT !.pc = "flights", !.op = op, !.zone_id = zone_id,
                                     !.radius = radius, !.max_altitude = max_altitude]
    /\ UNCHANGED <<telemetry_generator, fcall, zoneSeq, zone_check, route_check, hex_query, res, flights, now, zones, dbVars, req, conn,
                   active_connections, bcast, started, errors>>

(* select(FlightRequest).filter(status.in_(["approved", "active"]),        *)
(*                              planned_end_time > current_time)           *)
ActiveFlights ==
    {f \in flights : f.status \in {"approved", "active"} /\ f.planned_end_time > now}

ZoneSelectFlights ==
    /\ zadm.pc = "flights"
    /\ LET active_flights == SortById(ActiveFlights)
       IN zadm' = [zadm EXCEPT !.pc = IF active_flights = <<>> THEN "commit" ELSE "waypoints",
                               !.todo = active_flights]
    /\ UNCHANGED <<telemetry_generator, fcall, zoneSeq, zone_check, route_check, hex_query, res, flights, now, zones, dbVars, req, conn,
                   active_connections, bcast, started, errors>>

(* One pass of the loop over active_flights: select(Waypoint) and the      *)
(* route check; HTTP 400 naming the flight when the route intersects       *)
ZoneCheckFlight ==
    /\ zadm.pc = "waypoints"
    /\ LET flight == Head(zadm.todo)
           rest == Tail(zadm.todo)
           zone == zones[CHOOSE k \in ZoneById(zadm.zone_id) : TRUE]
       IN zadm' = IF route_intersects_zone(route_points(flight.waypoints),
                                           zone.center_lat, CheckedRadius(zone))
                  THEN [IdleZadm EXCEPT !.op = zadm.op, !.answer = 400,
                                        !.flight = flight.id]
                  ELSE [zadm EXCEPT !.pc = IF rest = <<>> THEN "commit" ELSE "waypoints",
                                    !.todo = rest]
    /\ UNCHANGED <<telemetry_generator, fcall, zoneSeq, zone_check, route_check, hex_query, res, flights, now, zones, dbVars, req, conn,
                   active_connections, bcast, started, errors>>

(* zone.radius = ...; zone.max_altitude = ...; commit  /  db.delete(zone); commit *)
ZonesAfter ==
    IF zadm.op = "update"
    THEN [k \in 1..Len(zones) |->
            IF zones[k].id # zadm.zone_id THEN zones[k]
            ELSE [zones[k] EXCEPT
                    !.radius = zadm.radius,
                    !.max_altitude = IF zadm.max_altitude = Unset THEN @
                                     ELSE zadm.max_altitude]]
    ELSE SelectSeq(zones, LAMBDA z : z.id # zadm.zone_id)

ZoneCommit ==
    /\ zadm.pc = "commit"
    /\ zones' = ZonesAfter
    /\ zadm' = [IdleZadm EXCEPT !.op = zadm.op,
                                !.answer = IF zadm.op = "update" THEN 200 ELSE 204]
    /\ UNCHANGED <<telemetry_generator, fcall, zoneSeq, zone_check, route_check, hex_query, res, flights, now, dbVars, req, conn,
                   active_connections, bcast, started, errors>>

----------------------------------------------------------------------------
(* get_drones_in_hex, and get_drones_at_location, which converts its point *)
(* to an index and calls it.                                               *)

InvalidIndex == -1

h3_is_valid(h3_index) == h3_index # InvalidIndex

IdleHex == [pc |-> "idle", user |-> "admin", h3_index |-> 0, hex_cell |-> None,
            answer |-> 0, result |-> None]

(* select(CurrentDronePosition).where(hex_cell_id == hex_cell.id) *)
DronesInAnyCell(cell_id) == positions

DronesInCell(cell_id) == {p \in positions : p.hex_cell_id = cell_id}

(* The role check, and the validity check, whose HTTP 400 is raised inside *)
(* the try and turned into HTTP 500 by the except branch                   *)
HexQueryBegin(user, h3_index) ==
    /\ hex_query.pc = "idle"
    /\ hex_query' = IF user # "admin"
                    THEN [IdleHex EXCEPT !.user = user, !.h3_index = h3_index, !.answer = 403]
                    ELSE IF ~h3_is_valid(h3_index)
                    THEN [IdleHex EXCEPT !.user = user, !.h3_index = h3_index, !.answer = 500]
                    ELSE [IdleHex EXCEPT !.user = user, !.h3_index = h3_index, !.pc = "cell"]
    /\ errors' = IF user = "admin" /\ ~h3_is_valid(h3_index)
                 THEN errors \cup {"HTTPException"}
                 ELSE errors
    /\ UNCHANGED <<telemetry_generator, fcall, zoneSeq, zone_check, route_check, res, flights, zadm, now, zones, dbVars,
                   req, conn, active_connections, bcast, started>>

(* select(HexGridCell).where(h3_index == h3_index).scalar_one_or_none() *)
HexLookupCell ==
    /\ hex_query.pc = "cell"
    /\ LET found == CellByIndex(hex_query.h3_index)
       IN hex_query' = IF found = {} THEN [hex_query EXCEPT !.pc = "create"]
                       ELSE [hex_query EXCEPT !.pc = "drones",
                                              !.hex_cell = CHOOSE c \in found : TRUE]
    /\ UNCHANGED <<telemetry_generator, fcall, zoneSeq, zone_check, route_check, res, flights, zadm, now, zones, dbVars, req, conn,
                   active_connections, bcast, started, errors>>

(* db.add(HexGridCell(...)); await db.commit(): the insert waits for an    *)
(* uncommitted insert of the same index and fails on a committed one       *)
HexCreateCell ==
    /\ hex_query.pc = "create"
    /\ ~\E o \in Requests : /\ req[o].new_cell # None
                             /\ req[o].new_cell.h3_index = hex_query.h3_index
    /\ IF CellByIndex(hex_query.h3_index) # {}
       THEN /\ hex_query' = [IdleHex EXCEPT !.user = hex_query.user,
                                            !.h3_index = hex_query.h3_index,
                                            !.answer = 500]
            /\ errors' = errors \cup {"IntegrityError"}
            /\ UNCHANGED <<cells, cellSeq>>
       ELSE LET hex_cell == [id |-> cellSeq + 1, h3_index |-> hex_query.h3_index,
                             drones_count |-> 0]
            IN /\ cells' = cells \cup {hex_cell}
               /\ cellSeq' = cellSeq + 1
               /\ hex_query' = [hex_query EXCEPT !.pc = "drones", !.hex_cell = hex_cell]
               /\ UNCHANGED errors
    /\ UNCHANGED <<telemetry_generator, fcall, zoneSeq, zone_check, route_check, res, flights, zadm, now, zones, positions, alerts,
                   telemetry, posSeq, alertSeq, req, conn, active_connections, bcast, started>>

(* The select of the positions of the cell and the response *)
HexSelectDrones ==
    /\ hex_query.pc = "drones"
    /\ LET drones == DronesInCell(hex_query.hex_cell.id)
       IN hex_query' = [IdleHex EXCEPT
                          !.user = hex_query.user,
                          !.h3_index = hex_query.h3_index,
                          !.answer = 200,
                          !.result = [hex_cell |-> hex_query.hex_cell,
                                      drone_count |-> Cardinality(drones),
                                      drones |-> drones]]
    /\ UNCHANGED <<telemetry_generator, fcall, zoneSeq, zone_check, route_check, res, flights, zadm, now, zones, dbVars, req, conn,
                   active_connections, bcast, started, errors>>

HexStep ==
    \/ \E user \in {"admin", "other"}, h3_index \in {geo_to_h3(l) : l \in Lats} \cup {InvalidIndex} :
          HexQueryBegin(user, h3_index)
    \/ HexLookupCell
    \/ HexCreateCell
    \/ HexSelectDrones

----------------------------------------------------------------------------
(* flights/router.py: create_flight_request, update_flight_request_status  *)
(* and create_restricted_zone.  Every drone belongs to the user "owner".   *)
(* error is the exception that ended the call with HTTP 500, if any.       *)

IdleFcall == [pc |-> "idle", op |-> "none", user |-> "admin", flight |-> 0,
              planned_end_time |-> 0, waypoints |-> <<>>, status |-> "none",
              answer |-> 0, error |-> "none"]

Answered(call, op, answer, error) ==
    [IdleFcall EXCEPT !.op = op, !.user = call.user, !.flight = call.flight,
                      !.planned_end_time = call.planned_end_time,
                      !.waypoints = call.waypoints, !.status = call.status,
                      !.answer = answer, !.error = error]

(* select(Drone).filter(id == drone_id, owner_id == current_user.id): 404  *)
(* for another user; then the list waypoints_data, which reads wp.altitude *)
(* of every waypoint of the request                                        *)
FlightCreateBegin(user, planned_end_time, waypoints) ==
    /\ fcall.pc = "idle"
    /\ LET call == [IdleFcall EXCEPT !.op = "create", !.user = user,
                                     !.planned_end_time = planned_end_time,
                                     !.waypoints = waypoints]
       IN fcall' = IF user # "owner"
                   THEN Answered(call, "create", 404, "none")
                   ELSE IF \E k \in 1..Len(waypoints) : ~HasAltitude(waypoints[k])
                   THEN Answered(call, "create", 500, "AttributeError")
                   ELSE [call EXCEPT !.pc = "check"]
    /\ UNCHANGED <<telemetry_generator, zoneSeq, zone_check, route_check, hex_query, res, flights, zadm, now, zones,
                   dbVars, req, conn, active_connections, bcast, started, errors>>

(* create_linestring_from_waypoints raises ValueError on less than two     *)
(* points                                                                  *)
MinRoutePoints == 2

NewFlight(call) ==
    [id |-> Cardinality(flights) + 1, status |-> "pending",
     planned_end_time |-> call.planned_end_time, waypoints |-> call.waypoints]

(* The call of check_route_conflicts and HTTP 400 on a conflict; then the  *)
(* route, the flight request, its waypoints and the commit                 *)
FlightCreateCheck ==
    /\ fcall.pc = "check"
    /\ LET conflicts == check_route_conflicts(fcall.waypoints, zones)
       IN IF conflicts.error # "none"
          THEN /\ fcall' = Answered(fcall, "create", 500, conflicts.error)
               /\ UNCHANGED flights
          ELSE IF conflicts.has_conflicts
          THEN /\ fcall' = Answered(fcall, "create", 400, "none")
               /\ UNCHANGED flights
          ELSE IF Len(fcall.waypoints) < MinRoutePoints
          THEN /\ fcall' = Answered(fcall, "create", 500, "ValueError")
               /\ UNCHANGED flights
          ELSE /\ flights' = flights \cup {NewFlight(fcall)}
               /\ fcall' = Answered([fcall EXCEPT !.flight = Cardinality(flights) + 1],
                                    "create", 200, "none")
    /\ UNCHANGED <<telemetry_generator, zoneSeq, zone_check, route_check, hex_query, res, zadm, now, zones,
                   dbVars, req, conn, active_connections, bcast, started, errors>>

(* update_flight_request_status: select(FlightRequest).filter(id ==        *)
(* request_id), 404 when there is none, then the role check                *)
FlightStatusBegin(user, request_id, status) ==
    /\ fcall.pc = "idle"
    /\ LET call == [IdleFcall EXCEPT !.op = "status", !.user = user,
                                     !.flight = request_id, !.status = status]
       IN fcall' = IF ~\E f \in flights : f.id = request_id
                   THEN Answered(call, "status", 404, "none")
                   ELSE IF user # "admin"
                   THEN Answered(call, "status", 403, "none")
                   ELSE [call EXCEPT !.pc = "commit"]
    /\ UNCHANGED <<telemetry_generator, zoneSeq, zone_check, route_check, hex_query, res, flights, zadm, now, zones,
                   dbVars, req, conn, active_connections, bcast, started, errors>>

(* flight_request.status = update_data.status; commit *)
FlightStatusCommit ==
    /\ fcall.pc = "commit"
    /\ flights' = {IF f.id = fcall.flight THEN [f EXCEPT !.status = fcall.status] ELSE f :
                     f \in flights}
    /\ fcall' = Answered(fcall, "status", 200, "none")
    /\ UNCHANGED <<telemetry_generator, zoneSeq, zone_check, route_check, hex_query, res, zadm, now, zones,
                   dbVars, req, conn, active_connections, bcast, started, errors>>

(* create_restricted_zone: the role check, db.add(RestrictedZone(...)) and *)
(* the commit; is_active defaults to True                                  *)
ZoneCreate(user, center_lat, radius, max_altitude) ==
    /\ zadm.pc = "idle"
    /\ zoneSeq <= MaxZones
    /\ IF user # "admin"
       THEN /\ zadm' = [IdleZadm EXCEPT !.op = "create", !.answer = 403]
            /\ UNCHANGED <<zones, zoneSeq>>
       ELSE /\ zones' = Append(zones, [id |-> zoneSeq + 1, center_lat |-> center_lat,
                                       radius |-> radius, max_altitude |-> max_altitude,
                                       is_active |-> TRUE])
            /\ zoneSeq' = zoneSeq + 1
            /\ zadm' = [IdleZadm EXCEPT !.op = "create", !.zone_id = zoneSeq + 1,
                                        !.answer = 200]
    /\ UNCHANGED <<telemetry_generator, fcall, zone_check, route_check, hex_query, res, flights, now,
                   dbVars, req, conn, active_connections, bcast, started, errors>>

----------------------------------------------------------------------------
(* monitoring/telemetry.py: TelemetryGenerator, the flight simulator.  Its *)
(* start() loops update_active_flights, generate_telemetry and a sleep of  *)
(* one second.  A battery level of a tracked flight is held in tenths of a *)
(* percent.  The progress of a tracked flight is held as the distance      *)
(* covered on the current leg: the float progress of the code is           *)
(* progress / distance of the leg, and speed is the distance of one step.  *)
(* An altitude between two waypoints is the fraction num / den.            *)

Tenths == 10
MinSpeed == 5
MaxSpeed == 12
MinDrain == 1
MaxDrain == 3
LowBatteryFloor == 19

(* samples of random.uniform(5, 12) *)
Speeds == {MinSpeed, (MinSpeed + MaxSpeed) \div 2, MaxSpeed}
Drains == MinDrain..MaxDrain

NoFlights == [f \in {} |-> None]

IdleGenerator ==
    [pc |-> "update", todo |-> <<>>, active_flights |-> NoFlights,
     added_rows |-> [d \in Drones |-> 0], added_alerts |-> {}]

AtWaypoint(wp) ==
    [latitude |-> wp.latitude, altitude |-> [num |-> wp.altitude, den |-> 1]]

(* the dict of lines 63-77 *)
TrackedFlight(request, speed) ==
    [drone_id |-> request.drone_id, planned_end_time |-> request.planned_end_time,
     waypoints |-> request.waypoints, current_waypoint |-> 0, progress |-> 0,
     current_position |-> AtWaypoint(request.waypoints[1]),
     speed |-> speed, heading |-> 0, battery_level |-> FullBattery * Tenths,
     status |-> "airborne"]

(* index of the ascending sequence of the elements of a set of ids *)
RECURSIVE Ascending(_)
Ascending(S) == IF S = {} THEN <<>> ELSE <<Min(S)>> \o Ascending(S \ {Min(S)})

(* update_active_flights: the select of the approved requests whose        *)
(* planned window holds the present instant, a new dict for each of them   *)
(* that is not tracked and has waypoints, then the removal of the tracked  *)
(* flights whose planned end is past, each marked completed and committed. *)
(* generate_telemetry returns at once when no flight is tracked.           *)
update_active_flights ==
    /\ telemetry_generator.pc = "update"
    /\ LET tracked == telemetry_generator.active_flights
           active_requests == {f \in flights : /\ f.status = "approved"
                                               /\ f.planned_start_time <= now
                                               /\ f.planned_end_time >= now}
           fresh == {f \in active_requests : f.id \notin DOMAIN tracked /\ f.waypoints # <<>>}
           request(i) == CHOOSE f \in fresh : f.id = i
           initialized(speeds) ==
               [i \in DOMAIN tracked \cup {f.id : f \in fresh} |->
                   IF i \in DOMAIN tracked THEN tracked[i]
                   ELSE TrackedFlight(request(i), speeds[i])]
           completed_flights == {i \in DOMAIN tracked : tracked[i].planned_end_time < now}
       IN \E speeds \in [{f.id : f \in fresh} -> Speeds] :
            LET kept == [i \in DOMAIN initialized(speeds) \ completed_flights |->
                            initialized(speeds)[i]]
            IN /\ flights' = {IF f.id \in completed_flights
                              THEN [f EXCEPT !.status = "completed"] ELSE f : f \in flights}
               /\ telemetry_generator' =
                     [telemetry_generator EXCEPT
                         !.active_flights = kept,
                         !.pc = IF DOMAIN kept = {} THEN "update" ELSE "generate",
                         !.todo = Ascending(DOMAIN kept)]
    /\ UNCHANGED <<fcall, zoneSeq, zone_check, route_check, hex_query, res, zadm, now, zones,
                   dbVars, req, conn, active_connections, bcast, started, errors>>

(* _update_drone_position; current_waypoint counts from 0 as in the code *)
update_drone_position(flight_data) ==
    LET waypoints == flight_data.waypoints
        current_wp_idx == flight_data.current_waypoint
    IN IF current_wp_idx >= Len(waypoints) - 1
       THEN flight_data
       ELSE LET current_wp == waypoints[current_wp_idx + 1]
                next_wp == waypoints[current_wp_idx + 2]
                distance == calculate_distance(current_wp.latitude, next_wp.latitude)
                progress == flight_data.progress + flight_data.speed
                lat_diff == next_wp.latitude - current_wp.latitude
            IN IF distance > 0
               THEN IF progress >= distance
                    THEN [flight_data EXCEPT
                             !.current_waypoint = @ + 1,
                             !.progress = 0,
                             !.current_position = AtWaypoint(next_wp),
                             !.heading = IF lat_diff > 0 THEN 0 ELSE 180]
                    ELSE [flight_data EXCEPT
                             !.progress = progress,
                             !.current_position =
                                 [latitude |-> current_wp.latitude + (lat_diff * progress) \div distance,
                                  altitude |-> [num |-> current_wp.altitude * distance
                                                        + (next_wp.altitude - current_wp.altitude) * progress,
                                                den |-> distance]],
                             !.heading = IF lat_diff > 0 THEN 0 ELSE 180]
               ELSE flight_data

(* calculate_distance of the leg raises ValueError on a waypoint out of range *)
update_drone_position_raises(flight_data) ==
    /\ flight_data.current_waypoint < Len(flight_data.waypoints) - 1
    /\ calculate_distance_raises(flight_data.waypoints[flight_data.current_waypoint + 1].latitude,
                                 flight_data.waypoints[flight_data.current_waypoint + 2].latitude)

(* _check_violations: the _create_alert calls it makes, in order, over the *)
(* active zones; point_in_circle raises on a position out of range.        *)
RECURSIVE ViolationCalls(_, _)
ViolationCalls(zs, current_pos) ==
    IF zs = <<>> THEN <<>>
    ELSE LET zone == Head(zs) IN
         IF calculate_distance_raises(current_pos.latitude, zone.center_lat)
         THEN <<"ValueError">>
         ELSE (IF point_in_circle(current_pos.latitude, zone.center_lat, zone.radius)
               THEN (IF current_pos.altitude.num > zone.max_altitude * current_pos.altitude.den
                     THEN <<"altitude_violation">> ELSE <<>>) \o <<"geofence_violation">>
               ELSE <<>>) \o ViolationCalls(Tail(zs), current_pos)

GeneratedAlert(drone_id, alert_type) ==
    [drone_id |-> drone_id, alert_type |-> alert_type,
     severity |-> IF alert_type = "low_battery" THEN "medium" ELSE "high",
     zone |-> 0, is_resolved |-> FALSE, created_at |-> now, id |-> 0]

(* _create_alert, call after call: the select sees the committed alerts    *)
(* and those this session has added; scalar_one_or_none raises on two rows *)
RECURSIVE create_alert(_, _, _)
create_alert(calls, drone_id, added) ==
    IF calls = <<>> THEN [alerts |-> added, raised |-> FALSE]
    ELSE LET existing == {a \in alerts \cup added :
                            /\ a.drone_id = drone_id
                            /\ a.alert_type = Head(calls)
                            /\ a.created_at > now - DedupMinutes
                            /\ ~a.is_resolved}
         IN IF Head(calls) = "ValueError" \/ Cardinality(existing) > 1
            THEN [alerts |-> added, raised |-> TRUE]
            ELSE create_alert(Tail(calls), drone_id,
                              IF existing = {} THEN added \cup {GeneratedAlert(drone_id, Head(calls))}
                              ELSE added)

(* the decrease of line 126 without the floor of lines 127-128 *)
DrainedBelowZero(battery_level, drain) == battery_level - drain

(* lines 126-128 *)
Drained(battery_level, drain) ==
    IF battery_level - drain < 0 THEN 0 ELSE battery_level - drain

(* One turn of the loop of generate_telemetry, lines 103-138: the flight   *)
(* at the head of todo.  An exception leaves the rest of the turn undone.  *)
GenerateFlight(drain) ==
    /\ telemetry_generator.pc = "generate"
    /\ telemetry_generator.todo # <<>>
    /\ LET flight_id == Head(telemetry_generator.todo)
           flight_data == telemetry_generator.active_flights[flight_id]
           drone_id == flight_data.drone_id
           moved == update_drone_position(flight_data)
           checked == create_alert(ViolationCalls(ActiveZones(zones), moved.current_position),
                                   drone_id, telemetry_generator.added_alerts)
           battery_level == Drained(moved.battery_level, drain)
           low == IF battery_level < LowBattery * Tenths /\ battery_level > LowBatteryFloor * Tenths
                  THEN create_alert(<<"low_battery">>, drone_id, checked.alerts)
                  ELSE [alerts |-> checked.alerts, raised |-> FALSE]
           turn == [telemetry_generator EXCEPT !.todo = Tail(@)]
       IN telemetry_generator' =
            IF update_drone_position_raises(flight_data)
            THEN turn
            ELSE IF checked.raised
            THEN [turn EXCEPT !.active_flights[flight_id] = moved,
                              !.added_rows[drone_id] = @ + 1,
                              !.added_alerts = checked.alerts]
            ELSE [turn EXCEPT !.active_flights[flight_id] =
                                  [moved EXCEPT !.battery_level = battery_level],
                              !.added_rows[drone_id] = @ + 1,
                              !.added_alerts = low.alerts]
    /\ UNCHANGED <<fcall, zoneSeq, zone_check, route_check, hex_query, res, flights, zadm, now,
                   zones, dbVars, req, conn, active_connections, bcast, started, errors>>

(* ids of the rows a commit inserts *)
RECURSIVE Numbered(_, _)
Numbered(rows, seq) ==
    IF rows = {} THEN {}
    ELSE LET a == CHOOSE x \in rows : TRUE
         IN {[a EXCEPT !.id = seq + 1]} \cup Numbered(rows \ {a}, seq + 1)

(* await db.commit() of line 140, then the sleep *)
GenerateCommit ==
    /\ telemetry_generator.pc = "generate"
    /\ telemetry_generator.todo = <<>>
    /\ telemetry' = [d \in Drones |-> telemetry[d] + telemetry_generator.added_rows[d]]
    /\ alerts' = alerts \cup Numbered(telemetry_generator.added_alerts, alertSeq)
    /\ alertSeq' = alertSeq + Cardinality(telemetry_generator.added_alerts)
    /\ telemetry_generator' =
          [telemetry_generator EXCEPT !.pc = "update",
                                      !.added_rows = [d \in Drones |-> 0],
                                      !.added_alerts = {}]
    /\ UNCHANGED <<fcall, zoneSeq, zone_check, route_check, hex_query, res, flights, zadm, now,
                   zones, cells, positions, cellSeq, posSeq, req, conn, active_connections,
                   bcast, started, errors>>

----------------------------------------------------------------------------
(* The clock, observed at the instants at and just after each multiple of  *)
(* the deduplication window.                                               *)

Instants == {t \in 0..MaxTime : t % DedupMinutes \in {0, 1}}

ClockTo(t) ==
    /\ t > now
    /\ now' = t
    /\ UNCHANGED <<sideVars, zones, dbVars, req, conn, active_connections, bcast, started, errors>>

----------------------------------------------------------------------------
(* Initial state: the hex grid populated for the region of h3 index 0      *)
(* (scripts/populate_hex_grid.py), two active restricted zones.            *)

DefaultZones ==
    << [id |-> 1, center_lat |-> 0, radius |-> 0, max_altitude |-> 0, is_active |-> TRUE],
       [id |-> 2, center_lat |-> 2, radius |-> 0, max_altitude |-> 1, is_active |-> TRUE] >>

NoCalls ==
    /\ bcast = [q \in Pubs |-> None]
    /\ res = IdleRes
    /\ zadm = IdleZadm
    /\ route_check = None
    /\ hex_query = IdleHex
    /\ fcall = IdleFcall
    /\ telemetry_generator = IdleGenerator
    /\ zoneSeq = Len(zones)

Init ==
    /\ now = 0
    /\ zones = DefaultZones
    /\ cells = {[id |-> 1, h3_index |-> 0, drones_count |-> 0]}
    /\ positions = {}
    /\ alerts = {}
    /\ telemetry = [d \in Drones |-> 0]
    /\ cellSeq = 1
    /\ posSeq = 0
    /\ alertSeq = 0
    /\ req = [r \in Requests |-> IdleReq]
    /\ conn = [c \in Conns |-> ClosedConn]
    /\ active_connections = <<>>
    /\ started = 0
    /\ zone_check = None
    /\ errors = {}
    /\ NoCalls
    /\ flights = {}

(* The coroutines suspended at the select of the active zones in           *)
(* check_restricted_zone_violation: an ingest of the first body after its  *)
(* position lookup, a tick at a position updated in the last 30 seconds.   *)
ZoneLoads ==
    {<<"ingest", r>> : r \in {q \in Requests : req[q].pc = "zone"}}
    \cup
    {<<"ws", c>> : c \in
        {k \in Conns : /\ conn[k].pc = "loop"
                       /\ (now - Head(conn[k].todo).last_update) * SecondsPerMinute
                             <= RecentSeconds}}

Handlers == {"first", "second"}

Ingest(r, S, H) ==
    \/ \E s \in S, h \in H : IngestBegin(r, s, h)
    \/ IngestLookupCell(r)
    \/ IngestFlushCell(r)
    \/ IngestLookupPos(r)
    \/ \E ok \in BOOLEAN : IngestCheckZone(r, ok)
    \/ \E ok \in BOOLEAN : IngestCommit(r, ok)

(* The steps an ingest takes only for a sample with a low battery, and     *)
(* only while some connection is subscribed                                *)
IngestPublish(r) == \E ok \in BOOLEAN : IngestBroadcast(r, ok)

TickStep(c) ==
    \/ WsConnect(c)
    \/ TickQuery(c)
    \/ TickDrone(c)
    \/ TickCommitAlert(c)
    \/ \E delivered \in BOOLEAN : TickSend(c, delivered)
    \/ \E delivered \in BOOLEAN : TickSendAlerts(c, delivered)
    \/ \E ok \in BOOLEAN : TickPublish(c, ok)
    \/ \E ok \in BOOLEAN : TickBroadcast(c, ok)
    \/ TickSweep(c)

MidTick(c) == conn[c].pc \notin {"closed", "sleep", "done"}

Quiescent == (\A r \in Requests : ~InFlight(r)) /\ (\A c \in Conns : ~MidTick(c))

(* Handlers interleave at their awaits *)
Next ==
    \/ \E r \in Requests : Ingest(r, Samples, Handlers)
    \/ \E c \in Conns : TickStep(c)
    \/ \E t \in Instants : ClockTo(t)

Spec == Init /\ [][Next]_vars

(* Ingests one after another, no overlap, no subscriber *)
SeqNext ==
    \/ Ingest(1, RoutineSamples, Handlers)
    \/ \E t \in Instants : Quiescent /\ ClockTo(t)

SpecSeq == Init /\ [][SeqNext]_vars

(* One drone, one subscriber: ingests and ticks one after another *)
OneDrone == {s \in RoutineSamples : s.drone_id = 1}

TickNext ==
    \/ ~MidTick(1) /\ (Ingest(1, OneDrone, Handlers) \/ IngestPublish(1))
    \/ ~InFlight(1) /\ TickStep(1)
    \/ \E t \in Instants : Quiescent /\ ClockTo(t)

SpecTick == Init /\ [][TickNext]_vars

(* Overlapping ingests for one drone *)
ConcNext ==
    \/ \E r \in Requests : Ingest(r, OneDrone, Handlers)
    \/ \E t \in Instants : Quiescent /\ ClockTo(t)

SpecConc == Init /\ [][ConcNext]_vars

----------------------------------------------------------------------------
(* Two subscribers and one publisher of telemetry for a drone in a zone:   *)
(* the ingest and the two tick loops interleave at their awaits.           *)

ZoneSamples == {s \in OneDrone : s.latitude # 1 /\ s.status = "airborne"}

CastNext ==
    \/ (InFlight(1) \/ started < MaxIngests - 1) /\ Ingest(1, ZoneSamples, Handlers)
    \/ IngestPublish(1)
    \/ \E c \in Conns : TickStep(c)

SpecCast == Init /\ [][CastNext]_vars

(* The same publisher with subscribers that only listen.  The event loop   *)
(* runs every coroutine that is ready; when an awaited send completes is   *)
(* up to the subscriber.                                                   *)
Scheduled ==
    \/ \E c \in Conns : WsConnect(c)
    \/ Ingest(1, OneDrone, {"first"})

ListenNext ==
    \/ Scheduled
    \/ IngestPublish(1)

SpecListen == Init /\ [][ListenNext]_vars /\ WF_vars(Scheduled)

----------------------------------------------------------------------------
(* Ingests of one drone, one after another, with any battery level and     *)
(* with a latitude in or out of range, over two battery alert windows.     *)

IngestSamples ==
    {s \in Samples : /\ s.drone_id = 1
                     /\ s.latitude \in {1, LatLimit + 1}
                     /\ s.status = "airborne"}

LongInstants == {t \in 0..(2 * MaxTime) : t % DedupMinutes \in {0, 1}}

IngestNext ==
    \/ Ingest(1, IngestSamples, Handlers)
    \/ IngestBattery(1)
    \/ \E t \in LongInstants : Quiescent /\ ClockTo(t)

SpecIngest == Init /\ [][IngestNext]_vars

(* Ingests of one drone, one after another, with any altitude and battery  *)
(* level a float field accepts, in the valid range or out of it.           *)
WideSamples ==
    [drone_id : {1}, latitude : {0, MaxLat}, altitude : -1..MaxAlt, status : {"airborne"},
     battery_level : Batteries \cup {FullBattery + 1}]

RangeNext ==
    \/ Ingest(1, WideSamples, Handlers)
    \/ IngestBattery(1)

SpecRange == Init /\ [][RangeNext]_vars

(* Two drones, each with its own stream of requests: the ingests of one    *)
(* overlap the ingests of the other at every await.                        *)
PairSamples(d) ==
    {s \in RoutineSamples : s.drone_id = d /\ s.latitude # 1 /\ s.status = "airborne"}

PairNext == \E r \in Requests : Ingest(r, PairSamples(r), Handlers)

SpecPair == Init /\ [][PairNext]_vars

(* One drone in a zone that reports landed or airborne, and one subscriber *)
(* whose tick loop runs while the ingests do, over more than one           *)
(* deduplication window.                                                   *)
LandingSamples ==
    {s \in OneDrone : s.latitude = 0 /\ s.status \in {"airborne", "landed"}}

RollbackNext ==
    \/ (InFlight(1) \/ started < MaxIngests - 1) /\ Ingest(1, LandingSamples, {"first"})
    \/ IngestPublish(1)
    \/ TickStep(1)
    \/ \E t \in Instants : ~MidTick(1) /\ ClockTo(t)

SpecRollback == Init /\ [][RollbackNext]_vars

(* Two drones ingested one after another, and hexagon queries by an        *)
(* administrator and by another user at any await.                         *)
HexNext ==
    \/ \E r \in Requests :
          /\ \A o \in Requests \ {r} : ~InFlight(o)
          /\ Ingest(r, PairSamples(r), Handlers)
    \/ HexStep

SpecHex == Init /\ [][HexNext]_vars

----------------------------------------------------------------------------
(* One drone in a zone, one subscriber, and users who resolve alerts:      *)
(* ingests and ticks one after another, resolve calls at any await.        *)

ResolveNext ==
    \/ /\ ~MidTick(1)
       /\ InFlight(1) \/ started < MaxIngests - 1
       /\ Ingest(1, ZoneSamples, Handlers) \/ IngestPublish(1)
    \/ ~InFlight(1) /\ TickStep(1)
    \/ ResolveStep
    \/ ResolvePublish
    \/ \E t \in Instants : Quiescent /\ res.pc = "idle" /\ ClockTo(t)

SpecResolve == Init /\ [][ResolveNext]_vars

----------------------------------------------------------------------------
(* The point check applied to any zone table *)

ZoneRows == [center_lat : Lats, radius : 0..1, max_altitude : {0, MaxAlt},
             is_active : BOOLEAN]

ZoneTables ==
    UNION {[1..n -> ZoneRows] : n \in 0..MaxZones}

WithIds(table) ==
    [i \in 1..Len(table) |->
        [id |-> i, center_lat |-> table[i].center_lat, radius |-> table[i].radius,
         max_altitude |-> table[i].max_altitude, is_active |-> table[i].is_active]]

CheckZone(latitude, altitude) ==
    /\ zone_check' = [latitude |-> latitude, altitude |-> altitude,
                      result |-> check_restricted_zone_violation(latitude, altitude, zones)]
    /\ UNCHANGED <<telemetry_generator, fcall, zoneSeq, route_check, hex_query, res, flights, zadm, now, zones, dbVars, req, conn, active_connections,
                   bcast, started, errors>>

(* Administration of the zones: flight requests on file, an administrator  *)
(* and another user calling update_restricted_zone and                     *)
(* delete_restricted_zone, one call at a time.                             *)

MaxFlights == 2

Waypoint(latitude, altitude) == [latitude |-> latitude, altitude |-> altitude]

SampleRoutes ==
    { <<Waypoint(0, 1)>>,
      <<Waypoint(2, 0)>>,
      <<Waypoint(0, 0), Waypoint(2, 1)>> }

FlightRows ==
    [status : {"pending", "approved"}, planned_end_time : {1, MaxTime},
     waypoints : SampleRoutes]

FlightTables ==
    UNION { { { [id |-> i, status |-> t[i].status,
                 planned_end_time |-> t[i].planned_end_time,
                 waypoints |-> t[i].waypoints] : i \in 1..n }
              : t \in [1..n -> FlightRows] }
            : n \in 0..MaxFlights }

SurveyedZones ==
    << [id |-> 1, center_lat |-> 1, radius |-> 0, max_altitude |-> 0, is_active |-> TRUE],
       [id |-> 2, center_lat |-> 2, radius |-> 0, max_altitude |-> 1, is_active |-> TRUE] >>

ZoneAdminInit ==
    /\ now = 0
    /\ zones = SurveyedZones
    /\ cells = {[id |-> 1, h3_index |-> 0, drones_count |-> 0]}
    /\ positions = {}
    /\ alerts = {}
    /\ telemetry = [d \in Drones |-> 0]
    /\ cellSeq = 1
    /\ posSeq = 0
    /\ alertSeq = 0
    /\ req = [r \in Requests |-> IdleReq]
    /\ conn = [c \in Conns |-> ClosedConn]
    /\ active_connections = <<>>
    /\ started = 0
    /\ errors = {}
    /\ zone_check = None
    /\ bcast = [q \in Pubs |-> None]
    /\ res = IdleRes
    /\ zadm = IdleZadm
    /\ route_check = None
    /\ hex_query = IdleHex
    /\ fcall = IdleFcall
    /\ telemetry_generator = IdleGenerator
    /\ zoneSeq = Len(zones)
    /\ flights \in FlightTables

ZoneAdminNext ==
    \/ \E user \in {"admin", "other"}, zone_id \in 1..(MaxZones + 1),
          radius \in 0..MaxLat, max_altitude \in {Unset, 0} :
          ZoneCallBegin("update", user, zone_id, radius, max_altitude)
    \/ \E user \in {"admin", "other"}, zone_id \in 1..(MaxZones + 1) :
          ZoneCallBegin("delete", user, zone_id, 0, Unset)
    \/ ZoneSelectFlights
    \/ ZoneCheckFlight
    \/ ZoneCommit
    \/ zadm.pc = "idle" /\ \E t \in Instants : ClockTo(t)

SpecZoneAdmin == ZoneAdminInit /\ [][ZoneAdminNext]_vars

ZoneCheckInit ==
    /\ \E table \in ZoneTables : zones = WithIds(table)
    /\ now = 0
    /\ cells = {[id |-> 1, h3_index |-> 0, drones_count |-> 0]}
    /\ positions = {}
    /\ alerts = {}
    /\ telemetry = [d \in Drones |-> 0]
    /\ cellSeq = 1
    /\ posSeq = 0
    /\ alertSeq = 0
    /\ req = [r \in Requests |-> IdleReq]
    /\ conn = [c \in Conns |-> ClosedConn]
    /\ active_connections = <<>>
    /\ started = 0
    /\ zone_check = None
    /\ errors = {}
    /\ NoCalls
    /\ flights = {}

ZoneCheckNext == \E latitude \in Lats, altitude \in 0..(MaxAlt + 1) : CheckZone(latitude, altitude)

SpecZoneCheck == ZoneCheckInit /\ [][ZoneCheckNext]_vars

(* The point check with a store whose select of the zones may raise: the   *)
(* except branch of check_restricted_zone_violation logs and returns None. *)
(* last_loaded is history: the rows of the last select that succeeded.     *)
LastLoaded == IF zone_check = None THEN <<>> ELSE zone_check.last_loaded

CheckZoneFrom(latitude, altitude, loads) ==
    /\ zone_check' = [latitude |-> latitude, altitude |-> altitude,
                      result |-> IF loads
                                 THEN check_restricted_zone_violation(latitude, altitude, zones)
                                 ELSE None,
                      failed |-> ~loads,
                      last_loaded |-> IF loads THEN zones ELSE LastLoaded]
    /\ UNCHANGED <<telemetry_generator, fcall, zoneSeq, route_check, hex_query, res, flights, zadm, now, zones, dbVars, req, conn, active_connections,
                   bcast, started, errors>>

ZoneStoreNext ==
    \E latitude \in Lats, altitude \in 0..(MaxAlt + 1), loads \in BOOLEAN :
        CheckZoneFrom(latitude, altitude, loads)

SpecZoneStore == ZoneCheckInit /\ [][ZoneStoreNext]_vars

(* POST /flights/check-conflicts with any zone table and any list of up to *)
(* MaxWaypoints waypoints, as the request schema parses them.              *)

MaxWaypoints == 2

RouteSpace ==
    UNION {[1..n -> [latitude : Lats]] : n \in 0..MaxWaypoints}

CheckRoute(waypoints) ==
    /\ route_check' = [waypoints |-> waypoints,
                       result |-> check_route_conflicts(waypoints, zones)]
    /\ UNCHANGED <<telemetry_generator, fcall, zoneSeq, zone_check, hex_query, res, flights, zadm, now, zones, dbVars, req, conn,
                   active_connections, bcast, started, errors>>

RouteNext == \E waypoints \in RouteSpace : CheckRoute(waypoints)

SpecRoute == ZoneCheckInit /\ [][RouteNext]_vars

(* The flight and zone administration together: flight requests on file    *)
(* that passed the conflict check against the zones on file, owners who    *)
(* file requests, an administrator who approves or rejects them and who    *)
(* creates, updates and deletes zones, one flight call and one zone call   *)
(* at a time.                                                              *)
Intersects(waypoints, zs) ==
    \E k \in 1..Len(zs) :
        /\ zs[k].is_active
        /\ route_intersects_zone(route_points(waypoints), zs[k].center_lat, zs[k].radius)

ClearedTables ==
    {t \in FlightTables : \A f \in t : ~Intersects(f.waypoints, SurveyedZones)}

(* The waypoint lists of the requests: WaypointCreate objects *)
RequestRoutes ==
    { <<>>, <<[latitude |-> 0]>>, <<[latitude |-> 0], [latitude |-> 2]>> }

FlightsInit ==
    /\ now = 0
    /\ zones = SurveyedZones
    /\ cells = {[id |-> 1, h3_index |-> 0, drones_count |-> 0]}
    /\ positions = {}
    /\ alerts = {}
    /\ telemetry = [d \in Drones |-> 0]
    /\ cellSeq = 1
    /\ posSeq = 0
    /\ alertSeq = 0
    /\ req = [r \in Requests |-> IdleReq]
    /\ conn = [c \in Conns |-> ClosedConn]
    /\ active_connections = <<>>
    /\ started = 0
    /\ errors = {}
    /\ zone_check = None
    /\ NoCalls
    /\ flights \in ClearedTables

FlightsNext ==
    \/ \E user \in {"owner", "other"}, waypoints \in RequestRoutes :
          FlightCreateBegin(user, MaxTime, waypoints)
    \/ FlightCreateCheck
    \/ \E user \in {"admin", "owner"}, request_id \in 1..(MaxFlights + 1) :
          FlightStatusBegin(user, request_id, "approved")
    \/ FlightStatusCommit
    \/ \E user \in {"admin", "other"} : ZoneCreate(user, 0, 0, 0)
    \/ \E zone_id \in 1..(MaxZones + 1), radius \in 0..1 :
          ZoneCallBegin("update", "admin", zone_id, radius, Unset)
    \/ \E zone_id \in 1..(MaxZones + 1) : ZoneCallBegin("delete", "admin", zone_id, 0, Unset)
    \/ ZoneSelectFlights
    \/ ZoneCheckFlight
    \/ ZoneCommit
    \/ fcall.pc = "idle" /\ zadm.pc = "idle" /\ ClockTo(1)

SpecFlights == FlightsInit /\ [][FlightsNext]_vars

(* The flight simulator alone.  Flight 1 is any request of SimRows, flight *)
(* 2 is approved for the whole run; the generator starts idle, or after a  *)
(* long run that has flown flight 1 as far as it goes and has drained its  *)
(* battery to one of SimLevels.                                            *)

MaxSimRows == 3

SimZones ==
    << [id |-> 1, center_lat |-> 0, radius |-> 0, max_altitude |-> 1, is_active |-> TRUE],
       [id |-> 2, center_lat |-> 10, radius |-> 0, max_altitude |-> 1, is_active |-> TRUE] >>

SimRoutes ==
    { <<Waypoint(0, 1)>>,
      <<Waypoint(0, 0), Waypoint(10, 2)>>,
      <<Waypoint(0, 1), Waypoint(20, 1), Waypoint(10, 1)>>,
      <<Waypoint(0, 1), Waypoint(0, 1), Waypoint(10, 1)>>,
      <<Waypoint(0, 1), Waypoint(LatLimit + 1, 1)>> }

SimRows ==
    [id : {1}, drone_id : {1}, status : {"approved"}, planned_start_time : {-MaxTime, 1},
     planned_end_time : {1, MaxTime}, waypoints : SimRoutes]

SimLevels == {LowBattery * Tenths + 1, 2, 0}

RECURSIVE Flown(_)
Flown(flight_data) ==
    IF update_drone_position_raises(flight_data)
          \/ update_drone_position(flight_data) = flight_data
    THEN flight_data
    ELSE Flown(update_drone_position(flight_data))

SimInit ==
    /\ now = 0
    /\ zones = SimZones
    /\ cells = {[id |-> 1, h3_index |-> 0, drones_count |-> 0]}
    /\ positions = {}
    /\ alerts = {}
    /\ telemetry = [d \in Drones |-> 0]
    /\ cellSeq = 1
    /\ posSeq = 0
    /\ alertSeq = 0
    /\ req = [r \in Requests |-> IdleReq]
    /\ conn = [c \in Conns |-> ClosedConn]
    /\ active_connections = <<>>
    /\ started = 0
    /\ zone_check = None
    /\ errors = {}
    /\ bcast = [q \in Pubs |-> None]
    /\ res = IdleRes
    /\ zadm = IdleZadm
    /\ route_check = None
    /\ hex_query = IdleHex
    /\ fcall = IdleFcall
    /\ zoneSeq = Len(zones)
    /\ \E row \in SimRows :
         /\ flights = {row, [id |-> 2, drone_id |-> 2, status |-> "approved",
                             planned_start_time |-> 0, planned_end_time |-> MaxTime,
                             waypoints |-> <<Waypoint(0, 0), Waypoint(10, 2)>>]}
         /\ \/ telemetry_generator = IdleGenerator
            \/ /\ row.planned_start_time <= now
               /\ \E speed \in Speeds, level \in SimLevels :
                    /\ ~update_drone_position_raises(TrackedFlight(row, speed))
                    /\ telemetry_generator =
                         [IdleGenerator EXCEPT
                            !.active_flights =
                               [i \in {1} |-> [Flown(TrackedFlight(row, speed))
                                                 EXCEPT !.battery_level = level]]]

SimNext ==
    \/ (\A d \in Drones : telemetry[d] < MaxSimRows) /\ update_active_flights
    \/ \E drain \in Drains : GenerateFlight(drain)
    \/ GenerateCommit
    \/ \E t \in Instants : telemetry_generator.pc = "update" /\ ClockTo(t)

SpecSim == SimInit /\ [][SimNext]_vars

----------------------------------------------------------------------------
(* The segment test applied to any segment and circle on a meridian of     *)
(* MaxSpan units.                                                          *)

MaxSpan == 40

SegmentInit ==
    /\ now = 0
    /\ zones = DefaultZones
    /\ cells = {[id |-> 1, h3_index |-> 0, drones_count |-> 0]}
    /\ positions = {}
    /\ alerts = {}
    /\ telemetry = [d \in Drones |-> 0]
    /\ cellSeq = 1
    /\ posSeq = 0
    /\ alertSeq = 0
    /\ req = [r \in Requests |-> IdleReq]
    /\ conn = [c \in Conns |-> ClosedConn]
    /\ active_connections = <<>>
    /\ started = 0
    /\ errors = {}
    /\ zone_check = None
    /\ bcast = [q \in Pubs |-> None]
    /\ res = IdleRes
    /\ zadm = IdleZadm
    /\ flights = {}
    /\ hex_query = IdleHex
    /\ fcall = IdleFcall
    /\ telemetry_generator = IdleGenerator
    /\ zoneSeq = Len(zones)
    /\ route_check \in [p1 : 0..MaxSpan, p2 : 0..MaxSpan, center_lat : 0..MaxSpan,
                         radius : 0..1, called : {FALSE}, result : {FALSE}]

CheckSegment ==
    /\ ~route_check.called
    /\ route_check' = [route_check EXCEPT
                         !.called = TRUE,
                         !.result = line_intersects_circle(route_check.p1, route_check.p2,
                                                           route_check.center_lat,
                                                           route_check.radius)]
    /\ UNCHANGED <<telemetry_generator, fcall, zoneSeq, zone_check, hex_query, res, flights, zadm, now, zones, dbVars, req, conn,
                   active_connections, bcast, started, errors>>

SpecSegment == SegmentInit /\ [][CheckSegment]_vars

----------------------------------------------------------------------------
(* The tick loop of one subscriber over any table of current positions     *)
(* that ingests leave behind: one row per drone, any status, any age.      *)

SweepRows(d) ==
    [id : {d}, drone_id : {d}, hex_cell_id : {1}, latitude : {0}, altitude : {1},
     status : AllStatuses, battery_level : {FullBattery},
     last_update : {t \in Instants : t <= now}]

SweepInit ==
    /\ now \in Instants
    /\ \E present \in SUBSET Drones :
          \E rows \in [present -> UNION {SweepRows(d) : d \in Drones}] :
             /\ \A d \in present : rows[d] \in SweepRows(d)
             /\ positions = {rows[d] : d \in present}
             /\ telemetry = [d \in Drones |-> IF d \in present THEN 1 ELSE 0]
             /\ started = Cardinality(present)
    /\ zones = DefaultZones
    /\ cells = {[id |-> 1, h3_index |-> 0, drones_count |-> 0]}
    /\ alerts = {}
    /\ cellSeq = 1
    /\ posSeq = NumDrones
    /\ alertSeq = 0
    /\ req = [r \in Requests |-> IdleReq]
    /\ conn = [c \in Conns |-> ClosedConn]
    /\ active_connections = <<>>
    /\ zone_check = None
    /\ errors = {}
    /\ NoCalls
    /\ flights = {}

SweepNext ==
    \/ TickStep(1)
    \/ \E t \in Instants : Quiescent /\ ClockTo(t)

SpecSweep == SweepInit /\ [][SweepNext]_vars

----------------------------------------------------------------------------
(* Claims *)

ZoneOf(latitude, altitude) ==
    LET v == check_restricted_zone_violation(latitude, altitude, zones)
    IN IF v = None THEN 0 ELSE v.zone_id

(* An ingest call of request r returns its telemetry record in this step *)
IngestReturns(r) == InFlight(r) /\ telemetry' # telemetry

(* C1: after an ingest that ran alone returns, the drone of its sample has *)
(* exactly one current-position record, and that record holds the          *)
(* coordinates, the status and the hex cell of that sample.                *)
C1_OnePositionHoldingLastSample ==
    [][\A r \in Requests :
         IngestReturns(r) =>
            LET s == req[r].sample
                rows == {p \in positions' : p.drone_id = s.drone_id}
            IN /\ Cardinality(rows) = 1
               /\ \A p \in rows :
                     /\ p.latitude = s.latitude
                     /\ p.altitude = s.altitude
                     /\ p.status = s.status
                     /\ \E c \in cells' : /\ c.id = p.hex_cell_id
                                          /\ c.h3_index = geo_to_h3(s.latitude)]_vars

(* C2: overlapping ingests for one drone behave as if serialized: at most  *)
(* one current-position record per drone in every reachable state, and no  *)
(* ingest fails on finding several records.                                *)
C2_OverlappingIngestsSerialize ==
    /\ \A d \in Drones : Cardinality(PositionsOf(d)) <= 1
    /\ "MultipleResultsFound" \notin errors

(* C3: each hex cell's drones_count equals the number of current-position  *)
(* records that reference the cell.                                        *)
C3_CountEqualsReferences ==
    \A c \in cells :
        c.drones_count = Cardinality({p \in positions : p.hex_cell_id = c.id})

(* C4: a violating sample of a drone that stays in one zone creates an     *)
(* alert exactly when no unresolved alert of that drone for that zone was  *)
(* created within the last 5 minutes, on the ingestion path (first body)   *)
(* and on the tick path.                                                   *)
RecentZoneAlert(d, z) ==
    \E a \in alerts : /\ a.drone_id = d
                      /\ a.alert_type = "restricted_zone_violation"
                      /\ a.zone = z
                      /\ ~a.is_resolved
                      /\ a.created_at > now - DedupMinutes

OnlyZone(d, z) ==
    \A a \in alerts : (a.drone_id = d /\ a.alert_type = "restricted_zone_violation")
                          => a.zone = z

TickHandles(c) ==
    /\ conn[c].pc = "loop"
    /\ (now - Head(conn[c].todo).last_update) * SecondsPerMinute <= RecentSeconds

C4_AlertPerWindow ==
    [][/\ \A r \in Requests :
            (IngestReturns(r) /\ req[r].handler = "first") =>
               LET s == req[r].sample
                   z == ZoneOf(s.latitude, s.altitude)
               IN (z # 0 /\ OnlyZone(s.drone_id, z)) =>
                     ((alerts' # alerts) <=> ~RecentZoneAlert(s.drone_id, z))
       /\ \A c \in Conns :
            (TickHandles(c) /\ conn'[c] # conn[c]) =>
               LET position == Head(conn[c].todo)
                   z == ZoneOf(position.latitude, position.altitude)
               IN (z # 0 /\ OnlyZone(position.drone_id, z)) =>
                     ((conn'[c].pc = "alert") <=> ~RecentZoneAlert(position.drone_id, z))]_vars

(* C5: at most one unresolved alert per (drone, alert kind, zone) created  *)
(* within the deduplication window.                                        *)
C5_OneUnresolvedAlertPerKey ==
    \A a, b \in alerts :
        (/\ a.drone_id = b.drone_id
         /\ a.alert_type = b.alert_type
         /\ a.zone = b.zone
         /\ ~a.is_resolved /\ ~b.is_resolved
         /\ a.created_at > now - DedupMinutes
         /\ b.created_at > now - DedupMinutes) => a = b

(* C6: a violation at a position whose zone differs from the zone (or no   *)
(* zone) of the drone's previous known position creates a new alert, also  *)
(* when an unresolved alert of that drone is less than 5 minutes old.      *)
C6_ZoneTransitionAlerts ==
    [][/\ \A r \in Requests :
            (IngestReturns(r) /\ req[r].handler = "first" /\ req[r].current_pos # 0) =>
               LET s == req[r].sample
                   z == ZoneOf(s.latitude, s.altitude)
               IN \A p \in positions :
                     (p.id = req[r].current_pos /\ z # 0
                        /\ ZoneOf(p.latitude, p.altitude) # z)
                     => \E a \in alerts' \ alerts : a.drone_id = s.drone_id /\ a.zone = z
       /\ \A c \in Conns :
            (TickHandles(c) /\ conn'[c] # conn[c]) =>
               LET position == Head(conn[c].todo)
                   z == ZoneOf(position.latitude, position.altitude)
                   last_pos == conn[c].last_positions[position.drone_id]
               IN (z # 0 /\ last_pos # None
                     /\ ZoneOf(last_pos.latitude, last_pos.altitude) # z)
                  => conn'[c].pc = "alert"]_vars

(* C7: the point check returns the violation of the first active zone, in  *)
(* table order, whose circle contains the point, with severity high        *)
(* exactly when the altitude exceeds that zone's max_altitude, and returns *)
(* nothing exactly when no active zone contains the point.                 *)
Containing(latitude) ==
    {i \in 1..Len(zones) : /\ zones[i].is_active
                           /\ calculate_distance(latitude, zones[i].center_lat)
                                 <= zones[i].radius}

C7_FirstContainingZone ==
    zone_check # None =>
        LET hits == Containing(zone_check.latitude)
        IN IF hits = {}
           THEN zone_check.result = None
           ELSE LET zone == zones[Min(hits)]
                IN /\ zone_check.result # None
                   /\ zone_check.result.zone_id = zone.id
                   /\ zone_check.result.severity =
                        (IF zone_check.altitude > zone.max_altitude THEN "high" ELSE "medium")

(* a point inside two active zones: the first is reported (high), the      *)
(* second alone would have been medium                                     *)
C7_Witness ==
    /\ zone_check # None
    /\ Containing(zone_check.latitude) = {1, 2}
    /\ zone_check.result = [zone_id |-> 1, severity |-> "high"]
    /\ zone_check.altitude <= zones[2].max_altitude

(* C8: a sweep removes exactly the records whose last update is more than  *)
(* 5 minutes old and whose status is landed, emergency or disconnected; an *)
(* airborne or hovering record is never removed; nothing else changes.     *)
Sweeps(c) == conn[c].pc = "sweep" /\ conn'[c].pc = "sleep"

C8_SweepRemovesExactlyStaleTerminal ==
    [][\A c \in Conns :
         Sweeps(c) =>
            /\ positions' \subseteq positions
            /\ \A p \in positions :
                  /\ (p \notin positions') <=>
                        (/\ now - p.last_update > StaleMinutes
                         /\ p.status \in {"landed", "emergency", "disconnected"})
                  /\ p.status \in {"airborne", "hovering"} => p \in positions']_vars

(* a sweep has removed the record of one drone and kept an old airborne one *)
C8_Witness ==
    /\ conn[1].pc = "sleep"
    /\ \E d \in Drones : telemetry[d] > 0 /\ PositionsOf(d) = {}
    /\ \E p \in positions : p.status = "airborne" /\ now - p.last_update > StaleMinutes

(* C9: a sweep decrements the drones_count of a cell by one for each       *)
(* record referencing the cell that it removes.                            *)
C9_SweepDecrementsCount ==
    [][\A c \in Conns :
         Sweeps(c) =>
            \A cell \in cells :
               LET removed == {p \in positions \ positions' : p.hex_cell_id = cell.id}
               IN removed # {} =>
                     \E after \in cells' :
                        /\ after.id = cell.id
                        /\ after.drones_count = cell.drones_count - Cardinality(removed)]_vars

(* C10: callers that resolve the same new hex cell index at the same time  *)
(* leave exactly one cell record for it and all complete successfully.     *)
C10_CellCreationIdempotent ==
    /\ \A a, b \in cells : a.h3_index = b.h3_index => a = b
    /\ "IntegrityError" \notin errors

(* C11: an ingest whose position falls in a hex cell that has no record    *)
(* creates the cell record and leaves the drone a current position that    *)
(* references it; no step ever deletes a cell record.                      *)
C11_LazyCellCreation ==
    [][/\ \A r \in Requests :
            (IngestReturns(r) /\ CellByIndex(geo_to_h3(req[r].sample.latitude)) = {}) =>
               \E c \in cells' :
                  /\ c.h3_index = geo_to_h3(req[r].sample.latitude)
                  /\ \E p \in positions' : /\ p.drone_id = req[r].sample.drone_id
                                           /\ p.hex_cell_id = c.id
       /\ \A c \in cells : c \in cells']_vars


(* C12: a broadcast attempts the send on every connection that was         *)
(* subscribed when it started and still is when it ends; when it ends the  *)
(* connections whose send failed are no longer subscribed and the ones     *)
(* whose send succeeded still are.                                         *)
Finishes(p) == bcast[p] # None /\ bcast'[p] = None

C12_BroadcastReachesSubscribers ==
    [][\A p \in Pubs :
         Finishes(p) =>
            LET b == bcast[p]
                failed == {b.dead[k] : k \in 1..Len(b.dead)}
            IN /\ \A c \in b.subs : InList(active_connections, c) => c \in b.tried
               /\ \A c \in failed : ~InList(active_connections', c)
               /\ \A c \in b.tried \ failed :
                     InList(active_connections, c) => InList(active_connections', c)]_vars

(* C13: while a send of a broadcast has not completed, the message still   *)
(* reaches every other connection that is subscribed: a broadcast that is  *)
(* awaiting a send leads to a state where every subscriber has been tried, *)
(* whether or not the awaited send ever completes.                         *)
Awaiting(p) ==
    /\ bcast[p] # None
    /\ \E c \in bcast[p].subs \ bcast[p].tried : InList(active_connections, c)

AllTried(p) ==
    \/ bcast[p] = None
    \/ \A c \in bcast[p].subs : InList(active_connections, c) => c \in bcast[p].tried

C13_SlowSubscriberDoesNotDelay ==
    \A p \in Pubs : Awaiting(p) ~> AllTried(p)

(* C14: every subscriber is handed messages in the order they were         *)
(* published: a broadcast never delivers to a connection, subscribed since *)
(* the broadcast started, that was already handed a message published      *)
(* after the broadcast started.                                            *)
Delivers(p) ==
    /\ bcast[p] # None
    /\ bcast'[p] # None
    /\ bcast'[p].i = bcast[p].i + 1
    /\ bcast'[p].dead = bcast[p].dead

C14_PublishOrderPerSubscriber ==
    [][\A p \in Pubs :
         (Delivers(p) /\ bcast'[p].at \in bcast[p].subs)
            => bcast'[p].at \notin bcast[p].behind]_vars


(* C15: an ingested sample with a battery percentage below 20 creates a    *)
(* low-battery alert exactly when the drone has no unresolved low-battery  *)
(* alert created within the last 10 minutes, with severity high below 10   *)
(* and medium otherwise; a percentage of 20 or more creates none.          *)
C15_LowBatteryAlert ==
    [][\A r \in Requests :
         IngestReturns(r) =>
            LET s == req[r].sample
                created == {a \in alerts' \ alerts : /\ a.alert_type = "low_battery"
                                                     /\ a.drone_id = s.drone_id}
                recent == {a \in alerts : /\ a.alert_type = "low_battery"
                                          /\ a.drone_id = s.drone_id
                                          /\ ~a.is_resolved
                                          /\ a.created_at > now - BatteryMinutes}
            IN IF s.battery_level < LowBattery /\ recent = {}
               THEN /\ Cardinality(created) = 1
                    /\ \A a \in created :
                          a.severity = (IF s.battery_level < CriticalBattery
                                        THEN "high" ELSE "medium")
               ELSE created = {}]_vars

(* C19: an ingest whose latitude is out of range is rejected: no step of   *)
(* it changes the telemetry log, the current positions, the hex cells or   *)
(* the alerts (so it can only end by failing).                             *)
C19_InvalidCoordinateRejected ==
    [][\A r \in Requests :
         (InFlight(r) /\ ~ValidLat(req[r].sample.latitude)) =>
            UNCHANGED <<telemetry, positions, cells, alerts>>]_vars


(* C16: resolution is one-way: an alert that is resolved is still there    *)
(* and still resolved after every step (resolve calls, ingests, ticks).    *)
C16_ResolutionIsOneWay ==
    [][\A a \in alerts :
         a.is_resolved => \E b \in alerts' : b.id = a.id /\ b.is_resolved]_vars

(* a second resolve call is about to commit on an alert that is already    *)
(* resolved, and a later alert of the same drone is unresolved             *)
C16_Witness ==
    /\ res.pc = "commit"
    /\ \E a, b \in alerts : /\ a.id = res.alert_id
                            /\ a.is_resolved
                            /\ b.drone_id = a.drone_id
                            /\ b.id > a.id
                            /\ ~b.is_resolved

(* C17: only unresolved alerts suppress: a violating sample of a drone     *)
(* whose restricted-zone alerts are all resolved, one of them for the same *)
(* zone and less than 5 minutes old, creates a new alert, on the ingestion *)
(* path (the alert check of the first body) and on the tick path.          *)
ResolvedRecently(d, z) ==
    /\ \A a \in alerts :
          (a.drone_id = d /\ a.alert_type = "restricted_zone_violation") => a.is_resolved
    /\ \E a \in alerts : /\ a.drone_id = d
                         /\ a.alert_type = "restricted_zone_violation"
                         /\ a.zone = z
                         /\ a.created_at > now - DedupMinutes

C17_OnlyUnresolvedSuppress ==
    [][/\ \A r \in Requests :
            (req[r].pc = "zone" /\ req'[r] # req[r]) =>
               LET s == req[r].sample
                   z == ZoneOf(s.latitude, s.altitude)
               IN (z # 0 /\ ResolvedRecently(s.drone_id, z)) =>
                     \E a \in req'[r].new_alerts : /\ a.drone_id = s.drone_id
                                                    /\ a.zone = z
                                                    /\ ~a.is_resolved
       /\ \A c \in Conns :
            (TickHandles(c) /\ conn'[c] # conn[c]) =>
               LET position == Head(conn[c].todo)
                   z == ZoneOf(position.latitude, position.altitude)
               IN (z # 0 /\ ResolvedRecently(position.drone_id, z)) =>
                     conn'[c].pc = "alert"]_vars


(* C18: a zone update or deletion takes effect only if no approved or      *)
(* active flight request whose planned end time has not passed would       *)
(* newly violate as a result (gain a conflict with the zones it does not   *)
(* have with the zones as they are); a call for which such a flight        *)
(* exists ends with HTTP 400 naming a flight request on file, approved or  *)
(* active and not ended, whose route conflicts with the zone as requested, *)
(* and no step of a rejected call changes the zones.                       *)
ConflictsOf(waypoints, zs) ==
    LET conflicts == check_route_conflicts(waypoints, zs).conflicts
    IN {<<conflicts[k].zone, conflicts[k].kind>> : k \in 1..Len(conflicts)}

NewlyViolating ==
    {f \in flights :
        /\ f.status \in {"approved", "active"}
        /\ f.planned_end_time > now
        /\ ConflictsOf(f.waypoints, ZonesAfter) \ ConflictsOf(f.waypoints, zones) # {}}

Offending ==
    {f \in flights :
        /\ f.status \in {"approved", "active"}
        /\ f.planned_end_time > now
        /\ \E c \in ConflictsOf(f.waypoints, ZonesAfter) : c[1] = zadm.zone_id}

C18_ZoneMutationRejectedOnNewViolation ==
    [][ /\ zones' # zones => /\ zadm.pc = "commit"
                             /\ NewlyViolating = {}
                             /\ zadm'.answer \in {200, 204}
        /\ (zadm.pc # "idle" /\ zadm'.pc = "idle" /\ NewlyViolating # {}) =>
              /\ zadm'.answer = 400
              /\ zadm'.flight \in {f.id : f \in Offending}
              /\ zones' = zones
        /\ zadm'.answer \in {400, 403, 404} => zones' = zones ]_vars

(* An update was rejected naming a flight that has no conflict with the    *)
(* zones as they are                                                       *)
C18_Witness ==
    /\ zadm.pc = "idle"
    /\ zadm.op = "update"
    /\ zadm.answer = 400
    /\ \E f \in flights :
          /\ f.id = zadm.flight
          /\ ~check_route_conflicts(f.waypoints, zones).has_conflicts


(* C20: in a tick, an error while processing one drone does not abort the  *)
(* tick: from the loop over the drones the coroutine goes on to the next   *)
(* drone, to the commit of a new alert or to the sending of the snapshot,  *)
(* and never ends.                                                         *)
C20_DroneErrorDoesNotAbortTick ==
    [][\A c \in Conns :
          conn[c].pc = "loop" /\ conn'[c] # conn[c] =>
              conn'[c].pc \in {"loop", "alert", "send"}]_vars


(* C21: at any time at most one load of the zones from the store is in     *)
(* flight: callers of the zone check share one refresh of the snapshot.    *)
C21_SingleZoneLoadInFlight == Cardinality(ZoneLoads) <= 1


(* C22: when the load of the active zones fails, the check is decided      *)
(* against the zones of the last load that succeeded: a point inside one   *)
(* of them is still reported as violating.                                 *)
C22_StaleZonesServedOnLoadFailure ==
    (zone_check # None /\ zone_check.failed) =>
        (check_restricted_zone_violation(zone_check.latitude, zone_check.altitude,
                                         zone_check.last_loaded) # None
            => zone_check.result # None)


(* C23: the route check reports a conflict with an active zone exactly     *)
(* when some waypoint lies inside the zone circle or some segment between  *)
(* consecutive waypoints intersects it, and each zone contributes at most  *)
(* one entry to the conflicts of the result.                               *)
Touches(waypoints, zone) ==
    \/ \E k \in 1..Len(waypoints) :
          point_in_circle(waypoints[k].latitude, zone.center_lat, zone.radius)
    \/ \E k \in 1..(Len(waypoints) - 1) :
          line_intersects_circle(waypoints[k].latitude, waypoints[k + 1].latitude,
                                 zone.center_lat, zone.radius)

EntriesOf(result, zone_id) ==
    {k \in 1..Len(result.conflicts) : result.conflicts[k].zone = zone_id}

C23_RouteConflictPerZone ==
    route_check # None =>
        LET result == route_check.result
            reported == {result.restricted_zones[k] : k \in 1..Len(result.restricted_zones)}
        IN /\ \A k \in 1..Len(zones) :
                 /\ zones[k].id \in reported <=>
                       (zones[k].is_active /\ Touches(route_check.waypoints, zones[k]))
                 /\ EntriesOf(result, zones[k].id) # {} <=> zones[k].id \in reported
                 /\ Cardinality(EntriesOf(result, zones[k].id)) <= 1
           /\ result.has_conflicts <=> reported # {}


(* C24: the segment test is true exactly when the closest point of the     *)
(* segment to the centre of the circle is within the radius.               *)
ClosestDistance(p1, p2, center_lat) ==
    IF Min({p1, p2}) <= center_lat /\ center_lat <= Max({p1, p2}) THEN 0
    ELSE Min({calculate_distance(p1, center_lat), calculate_distance(p2, center_lat)})

C24_SegmentTestExact ==
    route_check.called =>
        (route_check.result <=>
            ClosestDistance(route_check.p1, route_check.p2, route_check.center_lat)
                <= route_check.radius)


(* C25: an ingest that commits its sample while some connection is         *)
(* subscribed publishes a telemetry_update event, and an ingest that       *)
(* creates a zone alert while some connection is subscribed publishes a    *)
(* restricted_zone_alert event.                                            *)
Publishes(r, type) ==
    /\ bcast'[<<"ingest", r>>] # None
    /\ bcast'[<<"ingest", r>>].type = type

C25_IngestMirroredOnBroadcaster ==
    [][\A r \in Requests :
          /\ ( /\ req[r].pc \in {"cell", "commit"}
               /\ req'[r] # req[r]
               /\ telemetry' # telemetry
               /\ active_connections # <<>> ) => Publishes(r, "telemetry_update")
          /\ ( /\ req'[r].new_alerts # req[r].new_alerts
               /\ \E a \in req'[r].new_alerts : a.alert_type = "restricted_zone_violation"
               /\ req[r].pc = "zone"
               /\ active_connections # <<>> ) => Publishes(r, "restricted_zone_alert")]_vars


(* C26: every current-position record has a battery percentage within     *)
(* 0..100 and an altitude of at least 0, and an ingest of a sample that    *)
(* reports a battery percentage within 0..100 stores the reported value.   *)
C26_BatteryAndAltitudeInRange ==
    [][/\ \A p \in positions' : /\ p.battery_level \in 0..FullBattery
                                 /\ p.altitude >= 0
       /\ \A r \in Requests :
             ( /\ req[r].pc = "commit"
               /\ telemetry' # telemetry
               /\ req[r].sample.battery_level \in 0..FullBattery ) =>
                 \A p \in positions' :
                     p.drone_id = req[r].sample.drone_id =>
                         p.battery_level = req[r].sample.battery_level]_vars


(* C27: a step of an ingest for a drone leaves the current-position record *)
(* of every other drone as it is, and creates or changes no alert of       *)
(* another drone.                                                          *)
OfOthers(rows, drone_id) == {x \in rows : x.drone_id # drone_id}

C27_IngestTouchesOnlyItsDrone ==
    [][\A r \in Requests :
          (InFlight(r) /\ req'[r] # req[r]) =>
              /\ OfOthers(positions', req[r].sample.drone_id)
                    = OfOthers(positions, req[r].sample.drone_id)
              /\ OfOthers(alerts', req[r].sample.drone_id)
                    = OfOthers(alerts, req[r].sample.drone_id)]_vars

(* Both drones have a position and an alert, and one of them was ingested  *)
(* again after that                                                        *)
C27_Witness ==
    /\ \A d \in Drones : /\ \E p \in positions : p.drone_id = d
                          /\ \E a \in alerts : a.drone_id = d
    /\ \E d \in Drones : telemetry[d] > 1


(* C28: an ingest that fails and is rolled back has sent its alert event   *)
(* to no subscriber.                                                       *)
FailsUncommitted(r) ==
    /\ req[r].pc \notin {"idle", "publish"}
    /\ req'[r].pc = "idle"
    /\ telemetry' = telemetry

C29_HexQueryAnswer ==
    [][/\ (hex_query.pc = "drones" /\ hex_query'.pc = "idle") =>
             LET result == hex_query'.result
             IN /\ hex_query'.answer = 200
                /\ result.hex_cell \in cells
                /\ result.hex_cell.h3_index = hex_query.h3_index
                /\ result.drones = {p \in positions : p.hex_cell_id = result.hex_cell.id}
                /\ result.drone_count = Cardinality(result.drones)
       /\ (hex_query.pc = "idle" /\ hex_query' # hex_query /\ hex_query'.user # "admin") =>
             /\ hex_query'.answer = 403
             /\ hex_query'.pc = "idle"
             /\ UNCHANGED <<dbVars, zones>>]_vars

(* A query answered with some of the positions, not all of them *)
C29_Witness ==
    /\ hex_query.answer = 200
    /\ hex_query.result.drone_count > 0
    /\ hex_query.result.drones # positions
    /\ hex_query.result.drones = {p \in positions : p.hex_cell_id = hex_query.result.hex_cell.id}


(* C30: an ingest is all or nothing.  No step of an ingest but its commit  *)
(* changes a stored row, an ingest that fails leaves the telemetry log,    *)
(* the cells, the positions and the alerts as they are, and the commit     *)
(* stores the telemetry record together with the cell the ingest created,  *)
(* the position of its sample and every alert it raised.                   *)
Commits(r) == InFlight(r) /\ req'[r] # req[r] /\ telemetry' # telemetry

C30_IngestAllOrNothing ==
    [][\A r \in Requests :
          /\ (InFlight(r) /\ req'[r] # req[r] /\ ~Commits(r)) =>
                UNCHANGED <<telemetry, cells, positions, alerts>>
          /\ Commits(r) =>
                LET s == req[r].sample
                IN /\ telemetry' = [telemetry EXCEPT ![s.drone_id] = @ + 1]
                   /\ req[r].new_cell # None => req[r].new_cell \in cells'
                   /\ Cardinality(alerts') = Cardinality(alerts) + Cardinality(req[r].new_alerts)
                   /\ \A a \in req[r].new_alerts :
                         \E b \in alerts' \ alerts : /\ b.drone_id = a.drone_id
                                                     /\ b.alert_type = a.alert_type
                   /\ req[r].pc = "commit" =>
                         \E q \in positions' : /\ q.drone_id = s.drone_id
                                                /\ q.latitude = s.latitude
                                                /\ q.altitude = s.altitude
                                                /\ q.status = s.status
                                                /\ q.hex_cell_id = req[r].hex_cell]_vars

(* An ingest has failed and another has committed an alert and a cell *)
C30_Witness ==
    /\ errors # {}
    /\ \A r \in Requests : ~InFlight(r)
    /\ alerts # {}
    /\ Cardinality(cells) > 1


(* C31: the sweep runs only in the tick loop of a subscribed connection:   *)
(* while no connection is subscribed to the broadcaster, no step removes a *)
(* current-position record.                                                *)
C31_SweepOnlyWhileSubscribed ==
    [][active_connections = <<>> =>
          \A p \in positions : \E q \in positions' : q.id = p.id]_vars



(* C32: the telemetry_update snapshot a tick sends holds exactly the       *)
(* drones whose current position has status airborne or hovering and was   *)
(* updated in the last 30 seconds, each once; a drone with another status  *)
(* (landing included) is in no snapshot and gets no violation check in a   *)
(* tick.                                                                   *)
SendsSnapshot(c) ==
    /\ conn[c].pc = "send"
    /\ conn[c].drone_telemetry # {}
    /\ conn'[c].pc \in {"sweep", "send_alerts"}

Reportable ==
    {p \in positions : /\ p.status \in {"airborne", "hovering"}
                       /\ (now - p.last_update) * SecondsPerMinute <= RecentSeconds}

C32_SnapshotHoldsLiveRecentDrones ==
    [][\A c \in Conns :
          /\ SendsSnapshot(c) =>
                conn[c].drone_telemetry = {p.drone_id : p \in Reportable}
          /\ TickHandles(c) => Head(conn[c].todo).status \in {"airborne", "hovering"}]_vars

(* A snapshot with one drone and its new alert has been sent while the     *)
(* other drone has a position of this minute with status landing           *)
C32_Witness ==
    /\ conn[1].pc = "send_alerts"
    /\ Len(conn[1].restricted_zone_alerts) = 1
    /\ \E p \in positions : /\ p.drone_id # conn[1].restricted_zone_alerts[1].drone_id
                            /\ p.status = "landing"
                            /\ p.last_update = now



(* C33: a subscriber is handed the restricted_zone_alert event of a new    *)
(* alert at most once: the connection whose tick created the alert and     *)
(* sent it on its own socket is not handed it again by the broadcast of    *)
(* that tick.                                                              *)
OwnAlertsSent(c) == conn[c].pc \in {"publish", "broadcast"}

HandsTo(p, c) ==
    LET before == IF bcast[p] = None THEN NewBroadcast("restricted_zone_alert")
                  ELSE bcast[p]
    IN /\ bcast'[p] # None
       /\ bcast'[p].i = before.i + 1
       /\ bcast'[p].dead = before.dead
       /\ bcast'[p].at = c

C33_AlertEventAtMostOnce ==
    [][\A c \in Conns : OwnAlertsSent(c) => ~HandsTo(<<"ws", c>>, c)]_vars



CreateEnds ==
    /\ fcall.pc \in {"idle", "check"}
    /\ fcall' # fcall
    /\ fcall'.pc = "idle"
    /\ fcall'.op = "create"

C35_ConflictingRequestRejected ==
    [][CreateEnds =>
          /\ flights' # flights => ~Intersects(fcall'.waypoints, zones)
          /\ (fcall'.user = "owner" /\ Intersects(fcall'.waypoints, zones)) =>
                /\ fcall'.answer = 400
                /\ flights' = flights]_vars



(* C36: a hexagon query by an administrator with an invalid cell index is  *)
(* answered with HTTP 400, the error raised for it, and creates no cell    *)
(* record.                                                                 *)
C36_InvalidIndexIsBadRequest ==
    [][(/\ hex_query.pc = "idle"
        /\ hex_query' # hex_query
        /\ hex_query'.user = "admin"
        /\ ~h3_is_valid(hex_query'.h3_index)) =>
            /\ hex_query'.pc = "idle"
            /\ hex_query'.answer = 400
            /\ cells' = cells]_vars



(* C37: at every step of the flight simulator, for every flight that is    *)
(* tracked before and after the step: the current waypoint index does not  *)
(* decrease and does not exceed the index of the last waypoint, progress   *)
(* is in [0, 1) after the step (the distance covered on the leg is 0, or   *)
(* is less than the length of the leg), the battery level is not below 0,  *)
(* and a flight that was at its last waypoint keeps its position.          *)
LastIndex(flight_data) == Len(flight_data.waypoints) - 1

ProgressInUnitInterval(flight_data) ==
    \/ flight_data.progress = 0
    \/ /\ flight_data.current_waypoint < LastIndex(flight_data)
       /\ 0 < flight_data.progress
       /\ flight_data.progress <
             calculate_distance(flight_data.waypoints[flight_data.current_waypoint + 1].latitude,
                                flight_data.waypoints[flight_data.current_waypoint + 2].latitude)

C37_SimulatedFlightStaysInRange ==
    [][\A i \in DOMAIN telemetry_generator.active_flights
                  \cap DOMAIN telemetry_generator'.active_flights :
          LET before == telemetry_generator.active_flights[i]
              after == telemetry_generator'.active_flights[i]
          IN /\ after.current_waypoint >= before.current_waypoint
             /\ after.current_waypoint <= LastIndex(after)
             /\ ProgressInUnitInterval(after)
             /\ after.battery_level >= 0
             /\ before.current_waypoint = LastIndex(before)
                   => after.current_position = before.current_position]_vars

(* Flight 1 has flown both legs of its route and then drained its battery  *)
(* to 0, flight 2 is between its two waypoints, and rows of both are       *)
(* committed.                                                              *)
C37_Witness ==
    /\ DOMAIN telemetry_generator.active_flights = {1, 2}
    /\ LastIndex(telemetry_generator.active_flights[1]) = 2
    /\ telemetry_generator.active_flights[1].current_waypoint = 2
    /\ telemetry_generator.active_flights[1].battery_level = 0
    /\ telemetry_generator.active_flights[2].progress > 0
    /\ telemetry[1] > 0
    /\ telemetry[2] > 0


(* C38: no connection is twice in manager.active_connections; a call of    *)
(* manager.disconnect for a connection that is not in the list leaves the  *)
(* list as it is, both in the except branches of websocket_endpoint and in *)
(* the clean up of a broadcast; and a connection that has been             *)
(* disconnected stays out of the list and is handed no message by any      *)
(* broadcast from then on.                                                 *)
Subscribers == {active_connections[k] : k \in 1..Len(active_connections)}

Disconnected(c) == conn[c].pc # "closed" /\ ~InList(active_connections, c)

EndpointEnds(c) == conn[c].pc # "done" /\ conn'[c].pc = "done"

CleansUp(p) == bcast[p] # None /\ bcast'[p] = None

C38_DisconnectedGetsNoBroadcast ==
    /\ [](\A i, j \in 1..Len(active_connections) :
             active_connections[i] = active_connections[j] => i = j)
    /\ [][/\ \A c \in Conns :
                /\ Disconnected(c) /\ EndpointEnds(c)
                      => active_connections' = active_connections
                /\ Disconnected(c) => Disconnected(c)'
                /\ Disconnected(c) => \A p \in Pubs : ~HandsTo(p, c)
          /\ \A p \in Pubs :
                CleansUp(p) =>
                   /\ Subscribers' = Subscribers \ {bcast[p].dead[k] : k \in 1..Len(bcast[p].dead)}
                   /\ Len(active_connections') = Cardinality(Subscribers')]_vars

(* A broadcast that began while connection c was subscribed is still       *)
(* awaiting its send to connection d; c has since failed on its own        *)
(* socket, was disconnected and its endpoint has returned.                 *)
C38_Witness ==
    \E c, d \in Conns :
       /\ c # d
       /\ conn[c].pc = "done"
       /\ ~InList(active_connections, c)
       /\ InList(active_connections, d)
       /\ \E p \in Pubs : /\ bcast[p] # None
                          /\ c \in bcast[p].subs
                          /\ bcast[p].at = d

====
